---------------------------- MODULE Spec2Model ----------------------------
(***************************************************************************)
(* A model of the scales RPC client core (steveniemitz/pynagle):           *)
(*   - scales/timer_queue.py        the timer queue and its worker         *)
(*   - scales/thriftmux/sink.py     the tag pool, the multiplexed          *)
(*                                  transport and its timeout sink         *)
(*   - scales/dispatch.py           completion of the caller's future      *)
(*                                                                         *)
(* The program runs on a cooperative scheduler (gevent): a task runs       *)
(* without interruption until it blocks (event wait, sleep, queue get,     *)
(* socket I/O).  Every action below is the code run by one task between    *)
(* two such points.  Tasks started with gevent.spawn begin in the order    *)
(* in which they were spawned.                                             *)
(***************************************************************************)
EXTENDS Integers, Sequences, FiniteSets, TLC

(***************************************************************************)
(* Bounds of the model.                                                    *)
(***************************************************************************)
\* Number of Schedule calls made on the timer queue.
MaxTimers == 2
\* The clock runs from 0 to MaxTime.
MaxTime == 3
\* Number of calls submitted to the multiplexed transport.
NumReqs == 2
\* The largest max_tag a TagPool is constructed with (SocketTransportSink
\* passes 2^24 - 1): the pool hands out tags below its max_tag, and the frames
\* received carry tags below this bound.
MaxTag == 4
\* Number of frames the receive loop reads off the socket.
MaxFrames == 2
\* Number of Tping messages sent (the initial one included).
MaxPings == 3
\* `self._ping_timeout = 5`: seconds a _PingTimeoutHelper waits for the Rping.
PingTimeout == 5
\* `gevent.sleep(30)`: seconds between the pings of the _PingLoop.
PingInterval == 30
\* The width of a tag on the wire, in bits (three bytes).
TagBits == 24
\* Number of calls submitted to the serial transport.
NumSReqs == 2
\* Number of Open calls made on the serial transport.
MaxOpens == 2
\* Number of Close calls made on the serial transport by its owner.
MaxCloses == 2
\* Number of calls sent through the timeout sink.
NumCReqs == 2
\* Number of children the watched ZooKeeper path may have.
NumMembers == 2
\* Number of changes (children and parent path created or deleted) made in
\* ZooKeeper.
MaxZkChanges == 5
\* Number of iterations over the ServerSet (get_members calls).
MaxIters == 1
\* Number of Open and Close calls made on the singleton pool.
MaxPoolCalls == 5
\* Number of underlying sinks the singleton pool creates.
MaxSinks == 2

VARIABLES
  \* ---- scales/timer_queue.py ----
  tq_resolution,  \* TimerQueue._resolution (0: no quantization)
  tq_lowres,      \* TRUE: time_source is LowResolutionTime.Get (a cached clock)
  tq_now,         \* the clock (time.time()); timed waits are measured by it
  tq_cached,      \* LowResolutionTime.now
  tq_queue,       \* TimerQueue._queue: the seq numbers of the entries in the heap
  tq_entry,       \* seq -> [deadline, requested, cancelled] : the timeout_args lists
  tq_seq,         \* TimerQueue._seq
  tq_event,       \* TimerQueue._event (is_set)
  tw_pc,          \* where the worker is
  tw_peeked,      \* while the worker waits: when its wait times out, and peeked_seq
  tq_spawned,     \* actions spawned by the worker that have not begun yet (FIFO)
  tq_started,     \* seq numbers in the order in which the worker spawned them
  tq_ran,         \* seq numbers whose action has begun to run
  tq_failed       \* those whose action raised, or blocks and never returns

VARIABLES
  \* ---- scales/thriftmux/sink.py ----
  m_state,        \* SocketTransportSink._state
  tp_set,         \* TagPool._set
  tp_next,        \* TagPool._next
  tp_max,         \* TagPool._max_tag
  tag_map,        \* SocketTransportSink._tag_map : tag -> the call whose sink stack it holds
  send_queue,     \* SocketTransportSink._send_queue
  ping_ar,        \* SocketTransportSink._ping_ar (0: None; k: the AsyncResult of ping k)
  ars_set,        \* the ping AsyncResults that have been set
  pings_sent,     \* number of _SendPingMessage calls so far
  open_result,    \* SocketTransportSink._open_result
  open_pc,        \* where the first _Open call is
  recv_pc,        \* the _RecvLoop task
  send_pc,        \* the _SendLoop task
  pingloop_pc,    \* the _PingLoop task
  ph_waiting,     \* the AsyncResults that _PingTimeoutHelper tasks wait on
  ptimer,         \* seconds left of each helper's ar.wait (-1: not begun, -2: over)
                  \* and of the ping loop's sleep (-1: not sleeping)
  ready,          \* tasks spawned and not begun yet, in spawn order
  req,            \* per call: the message, its TimeoutReplySink, its timer entry, its future
  frames_read,    \* number of frames read so far
  sd              \* shutdown_result: how often it was set, and the reason it holds

muxvars == <<m_state, tp_set, tp_next, tp_max, tag_map, send_queue, ping_ar, ars_set,
             pings_sent, open_result, open_pc, recv_pc, send_pc, pingloop_pc,
             ph_waiting, ptimer, ready, req, frames_read, sd>>

tqvars == <<tq_resolution, tq_lowres, tq_now, tq_cached, tq_queue, tq_entry,
            tq_seq, tq_event, tw_pc, tw_peeked, tq_spawned, tq_started, tq_ran,
            tq_failed>>

VARIABLES
  \* ---- scales/thrift/sink.py ----
  s_state,        \* SocketTransportSink._state
  s_sock,         \* self._socket.isOpen()
  s_open_result,  \* TRUE: SocketTransportSink._open_result holds an AsyncResult
  s_opening,      \* number of _OpenImpl tasks linked and not run yet
  s_processing,   \* SocketTransportSink._processing (0: None; r: the task of call r)
  s_req,          \* per call: where its transaction task is, and the response delivered
  s_faults,       \* number of _on_faulted.Set calls
  s_writes,       \* number of socket.write calls
  s_opens,        \* number of Open calls
  s_closes        \* number of Close calls made from outside the sink

servars == <<s_state, s_sock, s_open_result, s_opening, s_processing, s_req,
             s_faults, s_writes, s_opens, s_closes>>

\* The variables of the components other than the timer queue and the
\* multiplexed transport.
VARIABLES
  \* ---- scales/sink.py, scales/dispatch.py ----
  c_req,          \* per call: its Deadline, its TimeoutReplySink, its future
  c_now           \* time.time() as the timeout sink's timer queue sees it

chvars == <<c_req, c_now>>

VARIABLES
  \* ---- scales/loadbalancer/zookeeper.py ----
  zk_exists,      \* ZooKeeper: the parent path exists
  zk_children,    \* ZooKeeper: the children of the parent path
  zk_ver,         \* ZooKeeper: child -> which data it holds (counts its creations)
  zk_changes,     \* number of changes made in ZooKeeper so far
  dw_pend,        \* the DataWatch has a call of _data_changed to make
  cw_n,           \* number of ChildrenWatch objects that have not stopped
  cw_pend,        \* how many of them have a call of _on_set_changed to make
  ss_nodes,       \* ServerSet._nodes
  ss_members,     \* the keys of ServerSet._members
  ss_ver,         \* the values of ServerSet._members: which data each record holds
  ss_watching,    \* ServerSet._watching
  ss_queue,       \* ServerSet._notification_queue
  ss_obs,         \* number of observations (_on_set_changed, path seen deleted)
  ss_log,         \* the on_join / on_leave calls made so far, in order
  nw_pc,          \* where the _notification_worker is
  nw_work,        \* its work item: nodes to fetch, members fetched, nodes removed
  nw_began,       \* zk_changes when the worker took its first work item (-1: not yet)
  ss_joins,       \* member -> number of on_join calls
  ss_leaves,      \* member -> number of on_leave calls
  it_count,       \* _CallbackBlocker._count
  it_total        \* number of iterations over the ServerSet begun so far

\* The ServerSet's own state.
ssvars == <<ss_nodes, ss_members, ss_ver, ss_watching, ss_queue, ss_obs, ss_log,
            nw_pc, nw_work, nw_began, ss_joins, ss_leaves, it_count, it_total>>

zkvars == <<zk_exists, zk_children, zk_ver, zk_changes, dw_pend, cw_n, cw_pend, ssvars>>

VARIABLES
  \* ---- scales/thriftmux/sink.py: the frame header ----
  hd_type,        \* the msg_type handed to _BuildHeader
  hd_tag,         \* the tag handed to _BuildHeader
  hd_bytes,       \* the bytes _BuildHeader returned (<<>>: not built yet)
  hd_read         \* what ReadHeader returned (<<>>: not read yet)

hdvars == <<hd_type, hd_tag, hd_bytes, hd_read>>

VARIABLES
  \* ---- scales/pool/singleton.py ----
  sp_ref,         \* SingletonPoolSink._ref_count
  sp_next,        \* SingletonPoolSink.next_sink (0: None; else the id of a sink)
  sp_state,       \* the state of each underlying sink ("none": not created)
  sp_made,        \* number of sinks CreateSink has made
  sp_got,         \* what the last _Get returned (0: nothing, or it raised)
  sp_opens,       \* number of Open calls made on the pool
  sp_closes,      \* number of Close calls made on the pool
  sp_last         \* the last operation: "Open", "Close", "Get", "Sink"

spvars == <<sp_ref, sp_next, sp_state, sp_made, sp_got, sp_opens, sp_closes, sp_last>>

auxvars == <<hdvars, spvars>>

extvars == <<servars, chvars, zkvars, auxvars>>

vars == <<tqvars, muxvars, extvars>>

----------------------------------------------------------------------------
(***************************************************************************)
(* scales/timer_queue.py                                                   *)
(***************************************************************************)
Times == 0..MaxTime
Seqs == 1..MaxTimers
\* Resolutions the queue is constructed with: none, and a coarse one.
Resolutions == {0, 2}
NoPeek == [wake |-> -1, seq |-> 0]

\* math.ceil(float(deadline) / resolution) on non-negative integers
CeilDiv(d, res) == (d + res - 1) \div res

\* Schedule, lines 123-125: deadlines are rounded up to the resolution.
Quantize(d, res) == IF res = 0 THEN d ELSE CeilDiv(d, res) * res

\* self._time_source(): time.time, or the cached clock of LowResolutionTime
TimeSource == IF tq_lowres THEN tq_cached ELSE tq_now

\* A faulty order, by sequence number alone (the deadline left out of the
\* heap entries).
EntryLess_BySeq(x, sx, y, sy) == sx < sy

\* An order that takes the entry scheduled last among equal deadlines.
EntryLess_NewestFirst(x, sx, y, sy) ==
  \/ x.deadline < y.deadline
  \/ /\ x.deadline = y.deadline
     /\ sx > sy

\* heapq order on the timeout_args lists [deadline, seq, ...] x and y
EntryLess(x, sx, y, sy) ==
  \/ x.deadline < y.deadline
  \/ /\ x.deadline = y.deadline
     /\ sx < sy

\* self._queue[0]: the least entry of the heap q, whose lists are ent
HeapTop(ent, q) ==
  CHOOSE a \in q : \A b \in q \ {a} : EntryLess(ent[a], a, ent[b], b)

\* The places where the worker is suspended and other tasks may run.
TwSuspended == {"wait_empty", "sleep0", "wait_to", "dead"}

TqInit ==
  /\ tq_resolution \in Resolutions
  /\ tq_lowres \in BOOLEAN
  /\ tq_now = 0
  /\ tq_cached = 0
  /\ tq_queue = {}
  /\ tq_entry = <<>>
  /\ tq_seq = 0
  /\ tq_event = FALSE
  /\ tw_pc = "L64"
  /\ tw_peeked = NoPeek
  /\ tq_spawned = <<>>
  /\ tq_started = <<>>
  /\ tq_ran = {}
  /\ tq_failed = {}

\* heappop, then lines 97-101: the entry is spawned unless it is cancelled.
PopAndRun ==
  LET e == HeapTop(tq_entry, tq_queue) IN
  /\ tq_queue' = tq_queue \ {e}
  /\ IF tq_entry[e].cancelled
       THEN UNCHANGED <<tq_spawned, tq_started>>
       ELSE /\ tq_spawned' = Append(tq_spawned, e)
            /\ tq_started' = Append(tq_started, e)

\* A loop top that does not wait on the empty queue.
TimerWorkerTop_NoWait ==
  /\ tw_pc = "L64"
  /\ IF tq_event
       THEN /\ tq_event' = FALSE
            /\ tw_pc' = "sleep0"
       ELSE /\ tw_pc' = "L75"
            /\ UNCHANGED tq_event
  /\ UNCHANGED <<tq_resolution, tq_lowres, tq_now, tq_cached, tq_queue, tq_entry,
                 tq_seq, tw_peeked, tq_spawned, tq_started, tq_ran, tq_failed, muxvars, extvars>>

\* Lines 64-72: the top of the loop.
TimerWorkerTop ==
  /\ tw_pc = "L64"
  /\ IF tq_queue = {} /\ ~tq_event
       THEN /\ tw_pc' = "wait_empty"
            /\ UNCHANGED tq_event
       ELSE IF tq_event
         THEN /\ tq_event' = FALSE
              /\ tw_pc' = "sleep0"
         ELSE /\ tw_pc' = "L75"
              /\ UNCHANGED tq_event
  /\ UNCHANGED <<tq_resolution, tq_lowres, tq_now, tq_cached, tq_queue, tq_entry,
                 tq_seq, tw_peeked, tq_spawned, tq_started, tq_ran, tq_failed, muxvars, extvars>>

\* Line 65 returns: the event was set while the worker waited on the empty
\* queue; lines 67-72 clear it and yield.
TimerWorkerWakeEmpty ==
  /\ tw_pc = "wait_empty"
  /\ tq_event
  /\ tq_event' = FALSE
  /\ tw_pc' = "sleep0"
  /\ UNCHANGED <<tq_resolution, tq_lowres, tq_now, tq_cached, tq_queue, tq_entry,
                 tq_seq, tw_peeked, tq_spawned, tq_started, tq_ran, tq_failed, muxvars, extvars>>

\* Line 72 returns.
TimerWorkerResume ==
  /\ tw_pc = "sleep0"
  /\ tw_pc' = "L75"
  /\ UNCHANGED <<tq_resolution, tq_lowres, tq_now, tq_cached, tq_queue, tq_entry,
                 tq_seq, tq_event, tw_peeked, tq_spawned, tq_started, tq_ran, tq_failed, muxvars, extvars>>

\* Lines 75-90 and, when nothing is to be waited for, lines 92-103.
TimerWorkerPeek ==
  /\ tw_pc = "L75"
  /\ IF tq_queue = {}
       THEN \* self._queue[0] raises IndexError: the worker ends
            /\ tw_pc' = "dead"
            /\ UNCHANGED <<tq_queue, tw_peeked, tq_spawned, tq_started>>
       ELSE LET e == HeapTop(tq_entry, tq_queue) IN
            IF tq_entry[e].cancelled
              THEN /\ tq_queue' = tq_queue \ {e}
                   /\ tw_pc' = "L64"
                   /\ UNCHANGED <<tw_peeked, tq_spawned, tq_started>>
              ELSE IF tq_entry[e].deadline - TimeSource > 0
                THEN IF tq_event
                       THEN \* wait() returns True at once
                            /\ tw_pc' = "L64"
                            /\ UNCHANGED <<tq_queue, tw_peeked, tq_spawned, tq_started>>
                       ELSE /\ tw_pc' = "wait_to"
                            /\ tw_peeked' = [wake |-> tq_now + (tq_entry[e].deadline - TimeSource),
                                               seq |-> e]
                            /\ UNCHANGED <<tq_queue, tq_spawned, tq_started>>
                ELSE /\ PopAndRun
                     /\ tw_pc' = "L64"
                     /\ UNCHANGED tw_peeked
  /\ UNCHANGED <<tq_resolution, tq_lowres, tq_now, tq_cached, tq_entry,
                 tq_seq, tq_event, tq_ran, tq_failed, muxvars, extvars>>

\* A faulty wake-up: the result of wait() is not examined, the head is popped
\* whatever woke the worker.
TimerWorkerWake_IgnoresEvent ==
  /\ tw_pc = "wait_to"
  /\ tq_event \/ tq_now >= tw_peeked.wake
  /\ PopAndRun
  /\ tw_pc' = "L64"
  /\ tw_peeked' = NoPeek
  /\ UNCHANGED <<tq_resolution, tq_lowres, tq_now, tq_cached, tq_entry,
                 tq_seq, tq_event, tq_ran, tq_failed, muxvars, extvars>>

\* Line 87 returns: the event was set, or to_wait seconds have passed.
\* wait() returns the flag as it is when the worker wakes.
TimerWorkerWake ==
  /\ tw_pc = "wait_to"
  /\ tq_event \/ tq_now >= tw_peeked.wake
  /\ IF tq_event
       THEN UNCHANGED <<tq_queue, tq_spawned, tq_started>>
       ELSE PopAndRun
  /\ tw_pc' = "L64"
  /\ tw_peeked' = NoPeek
  /\ UNCHANGED <<tq_resolution, tq_lowres, tq_now, tq_cached, tq_entry,
                 tq_seq, tq_event, tq_ran, tq_failed, muxvars, extvars>>

\* A Schedule that never signals the worker's event.
Schedule_NoSignal(d) ==
  /\ tw_pc \in TwSuspended
  /\ tq_seq < MaxTimers
  /\ LET s == tq_seq + 1
         q == Quantize(d, tq_resolution)
         ent == [deadline |-> q, requested |-> d, cancelled |-> FALSE]
     IN /\ tq_seq' = s
        /\ tq_entry' = Append(tq_entry, ent)
        /\ tq_queue' = tq_queue \cup {s}
  /\ UNCHANGED <<tq_resolution, tq_lowres, tq_now, tq_cached, tq_event, tw_pc,
                 tw_peeked, tq_spawned, tq_started, tq_ran, tq_failed, muxvars, extvars>>

\* Schedule(deadline, action), lines 111-139.
Schedule(d) ==
  /\ tw_pc \in TwSuspended
  /\ tq_seq < MaxTimers
  /\ LET s == tq_seq + 1
         q == Quantize(d, tq_resolution)
         ent == [deadline |-> q, requested |-> d, cancelled |-> FALSE]
         newent == Append(tq_entry, ent)
         newq == tq_queue \cup {s}
         topd == newent[HeapTop(newent, newq)].deadline
     IN /\ tq_seq' = s
        /\ tq_entry' = newent
        /\ tq_queue' = newq
        /\ tq_event' = (tq_event \/ topd = q)
  /\ UNCHANGED <<tq_resolution, tq_lowres, tq_now, tq_cached, tw_pc, tw_peeked,
                 tq_spawned, tq_started, tq_ran, tq_failed, muxvars, extvars>>

\* A cancel that flips the flag.
CancelClosure_Flip(ent, s) == [ent EXCEPT ![s].cancelled = ~@]

\* The cancel closure of entry s: `timeout_args[2] = True` on the lists ent.
CancelClosure(ent, s) == [ent EXCEPT ![s].cancelled = TRUE]

\* cancel(), lines 130-133, of the entry with sequence number s.
Cancel(s) ==
  /\ tw_pc \in TwSuspended
  /\ s \in 1..tq_seq
  /\ tq_entry' = CancelClosure(tq_entry, s)
  /\ UNCHANGED <<tq_resolution, tq_lowres, tq_now, tq_cached, tq_queue,
                 tq_seq, tq_event, tw_pc, tw_peeked, tq_spawned, tq_started, tq_ran, tq_failed, muxvars, extvars>>

\* A spawned action runs on its own greenlet (gevent.spawn(action), line
\* 101): it returns, or it raises or blocks for ever inside that greenlet.
RunAction ==
  /\ tw_pc \in TwSuspended
  /\ tq_spawned # <<>>
  /\ tq_ran' = tq_ran \cup {Head(tq_spawned)}
  /\ tq_spawned' = Tail(tq_spawned)
  /\ \E ok \in BOOLEAN :
       tq_failed' = IF ok THEN tq_failed ELSE tq_failed \cup {Head(tq_spawned)}
  /\ UNCHANGED <<tq_resolution, tq_lowres, tq_now, tq_cached, tq_queue, tq_entry,
                 tq_seq, tq_event, tw_pc, tw_peeked, tq_started, muxvars, extvars>>

\* The clock advances.
Tick ==
  /\ tw_pc \in TwSuspended
  /\ tq_now < MaxTime
  /\ tq_now' = tq_now + 1
  /\ UNCHANGED <<tq_resolution, tq_lowres, tq_cached, tq_queue, tq_entry,
                 tq_seq, tq_event, tw_pc, tw_peeked, tq_spawned, tq_started, tq_ran, tq_failed, muxvars, extvars>>

\* LowResolutionTime._Update, lines 27-34: the cached clock is refreshed.
LowResUpdate ==
  /\ tw_pc \in TwSuspended
  /\ tq_lowres
  /\ tq_cached < tq_now
  /\ tq_cached' = tq_now
  /\ UNCHANGED <<tq_resolution, tq_lowres, tq_now, tq_queue, tq_entry,
                 tq_seq, tq_event, tw_pc, tw_peeked, tq_spawned, tq_started, tq_ran, tq_failed, muxvars, extvars>>

TqNext ==
  \/ TimerWorkerTop
  \/ TimerWorkerWakeEmpty
  \/ TimerWorkerResume
  \/ TimerWorkerPeek
  \/ TimerWorkerWake
  \/ \E d \in Times : Schedule(d)
  \/ \E s \in Seqs : Cancel(s)
  \/ RunAction
  \/ Tick
  \/ LowResUpdate

----------------------------------------------------------------------------
(***************************************************************************)
(* scales/thriftmux/sink.py, with the completion of the caller's future    *)
(* from scales/dispatch.py                                                 *)
(***************************************************************************)
Reqs == 1..NumReqs
WireTags == 0..(MaxTag - 1)
PingIds == 1..MaxPings
\* The ceilings a TagPool is constructed with.
MaxTags == 3..MaxTag
\* The frame types the receive loop is given: a reply, and a ping reply.
RecvTypes == {"Rdispatch", "Rping"}
\* The frames the server sends: a reply under any tag (asked for or not), the
\* ping reply, and a frame under a call's tag whose type has no unmarshaller.
RecvFrames ==
  {[type |-> "Rdispatch", tag |-> t] : t \in WireTags}
    \cup {[type |-> "Rping", tag |-> 1], [type |-> "Rping", tag |-> 2]}
\* What a caller submits (each with a Timeout property): a call, a one-way
\* call, and a message the serializer cannot marshal.
Kinds == {"call", "oneway", "bad"}

Range(f) == {f[x] : x \in DOMAIN f}

ReqInit == [st |-> "new", kind |-> "none", tag |-> 0, timer |-> "none",
            next |-> FALSE, disp |-> <<>>, fut |-> <<>>]

SdInit == [signals |-> 0, reason |-> "none"]

MuxInit ==
  /\ m_state = "UNINITIALIZED"
  /\ tp_set = {}
  /\ tp_next = 1
  /\ tp_max \in MaxTags
  /\ tag_map = <<>>
  /\ send_queue = <<>>
  /\ ping_ar = 0
  /\ ars_set = {}
  /\ pings_sent = 0
  /\ open_result = "None"
  /\ open_pc = "idle"
  /\ recv_pc = "none"
  /\ send_pc = "none"
  /\ pingloop_pc = "none"
  /\ ph_waiting = {}
  /\ ptimer = [wake |-> -1, dl |-> [a \in PingIds |-> -1]]
  /\ ready = <<>>
  /\ req = [r \in Reqs |-> ReqInit]
  /\ frames_read = 0
  /\ sd = SdInit

\* SocketTransportSink.isActive
isActive == m_state # "STOPPED"

\* MethodReturnMessage objects, by what made them
Msg(k) == [k |-> k, why |-> "none", tag |-> 0]
ShutdownMsg(reason) == [k |-> "Shutdown", why |-> reason, tag |-> 0]

\* Frames on the send queue: header type, header tag, and for a Tdiscarded
\* the tag its body names.
Frame(type, tag, which) == [type |-> type, tag |-> tag, which |-> which]

\* TimeoutSink.AsyncProcessMessage wraps the reply sink when the message is a
\* call with a Timeout property.
HasTimeout(kind) == kind \in {"call", "oneway", "bad"}

\* MessageDispatcher.AsyncProcessResponse: the future is set with whatever
\* return message reaches it.
CompleteFuture(q, msg) == [q EXCEPT !.fut = Append(@, msg)]

\* cancel() of the call's timer entry: it marks the entry; an entry the worker
\* has popped already is not affected.
CancelTimeout(q) == [q EXCEPT !.timer = IF @ = "armed" THEN "cancelled" ELSE @]

\* TimeoutReplySink.ProcessReturnMessage, or the caller's reply sink when
\* the call has no TimeoutReplySink.
ProcessReturnMessage(q, msg) ==
  IF HasTimeout(q.kind)
    THEN LET c == CancelTimeout(q) IN
         IF c.next THEN CompleteFuture(c, msg) ELSE c
    ELSE CompleteFuture(q, msg)

\* ClientChannelSinkStack.DispatchReplyMessage: one-way stacks have no reply sink.
DispatchReplyMessage(q, msg) ==
  LET d == [q EXCEPT !.disp = Append(@, msg)] IN
  IF q.kind # "oneway" THEN ProcessReturnMessage(d, msg) ELSE d

\* ThrfitMuxMessageSerializerSink.AsyncProcessResponse: the return message
\* read from a frame (its header names the tag); a frame type that is not in
\* the unmarshal map gives an error return message.
Unmarshal(type, tag) ==
  [k |-> IF type = "Rdispatch" THEN "Reply" ELSE "DecodeError",
   why |-> "none", tag |-> tag]

\* A faulty get that hands out every tag up to max_tag.
TagPoolGet_UpToMax ==
  IF \E t \in tp_set : t # 0
    THEN {[tag |-> t, set |-> tp_set \ {t}, next |-> tp_next] : t \in tp_set}
    ELSE IF tp_next = tp_max
      THEN {}
      ELSE {[tag |-> tp_next + 1, set |-> tp_set, next |-> tp_next + 1]}

\* TagPool.get: the results it can return (set.pop() takes any element);
\* none when it raises.
AnyFree == \E t \in tp_set : t # 0
TagPoolGet ==
  IF AnyFree
    THEN {[tag |-> t, set |-> tp_set \ {t}, next |-> tp_next] : t \in tp_set}
    ELSE IF tp_next = tp_max - 1
      THEN {}
      ELSE {[tag |-> tp_next + 1, set |-> tp_set, next |-> tp_next + 1]}

\* TagPool.release
TagPoolRelease(set, tag) == set \cup {tag}

\* A faulty _Shutdown that fails the transport and leaves the in-flight calls
\* without an answer.
Shutdown_NoDispatch(reason) ==
  IF ~isActive
    THEN UNCHANGED <<m_state, req, sd>>
    ELSE /\ m_state' = "STOPPED"
         /\ sd' = [signals |-> sd.signals + 1, reason |-> reason]
         /\ UNCHANGED req

\* _Shutdown(reason)
Shutdown(reason) ==
  IF ~isActive
    THEN UNCHANGED <<m_state, req, sd>>
    ELSE /\ m_state' = "STOPPED"
         /\ sd' = [signals |-> sd.signals + 1, reason |-> reason]
         /\ req' = [r \in Reqs |->
                      IF r \in Range(tag_map)
                        THEN DispatchReplyMessage(req[r], ShutdownMsg(reason))
                        ELSE req[r]]

\* _SendPingMessage
SendPingMessage ==
  /\ pings_sent' = pings_sent + 1
  /\ ping_ar' = pings_sent + 1
  /\ send_queue' = Append(send_queue, Frame("Tping", 1, 0))
  /\ ready' = Append(ready, [k |-> "pinghelper", type |-> "none", n |-> 0])

\* _Open, first call, up to ar.get(); the send and receive loops start.
Open ==
  /\ m_state # "RUNNING"
  /\ open_result = "None"
  /\ pings_sent < MaxPings
  /\ open_result' = "pending"
  /\ recv_pc' = "running"
  /\ send_pc' = "running"
  /\ m_state' = "STARTING"
  /\ SendPingMessage
  /\ open_pc' = "wait_ping"
  /\ UNCHANGED <<tp_set, tp_next, tag_map, ars_set, pingloop_pc, ph_waiting,
                 req, frames_read, sd, tp_max, ptimer, tqvars, extvars>>

\* _Open, first call, when socket.open() raises.
OpenFails ==
  /\ m_state # "RUNNING"
  /\ open_result = "None"
  /\ open_result' = "error"
  /\ open_pc' = "raised"
  /\ UNCHANGED <<m_state, tp_set, tp_next, tag_map, send_queue, ping_ar, ars_set,
                 pings_sent, recv_pc, send_pc, pingloop_pc, ph_waiting, ready,
                 req, frames_read, sd, tp_max, ptimer, tqvars, extvars>>

\* _Open after ar.get() has returned (lines 159-163).
OpenResume ==
  /\ open_pc = "wait_ping"
  /\ 1 \in ars_set
  /\ pingloop_pc' = "sleeping"
  /\ ptimer' = [ptimer EXCEPT !.wake = PingInterval]
  /\ m_state' = "RUNNING"
  /\ open_result' = "ok"
  /\ open_pc' = "done"
  /\ UNCHANGED <<tp_set, tp_next, tag_map, send_queue, ping_ar, ars_set,
                 pings_sent, recv_pc, send_pc, ph_waiting, ready,
                 req, frames_read, sd, tp_max, tqvars, extvars>>

\* _PingLoop wakes from gevent.sleep(30).
PingLoop ==
  /\ pingloop_pc = "sleeping"
  /\ ptimer.wake = 0
  /\ IF isActive
       THEN /\ pings_sent < MaxPings
            /\ SendPingMessage
            /\ ptimer' = [ptimer EXCEPT !.wake = PingInterval]
            /\ UNCHANGED pingloop_pc
       ELSE /\ pingloop_pc' = "done"
            /\ ptimer' = [ptimer EXCEPT !.wake = -1]
            /\ UNCHANGED <<pings_sent, ping_ar, send_queue, ready>>
  /\ UNCHANGED <<m_state, tp_set, tp_next, tag_map, ars_set, open_result, open_pc,
                 recv_pc, send_pc, ph_waiting, req, frames_read, sd, tp_max, tqvars, extvars>>

\* A helper that does not look at the result of the wait.
PingTimeoutHelper_NoCheck(a) ==
  /\ a \in ph_waiting
  /\ a \in ars_set \/ ptimer.dl[a] = 0
  /\ ph_waiting' = ph_waiting \ {a}
  /\ ptimer' = [ptimer EXCEPT !.dl[a] = -2]
  /\ Shutdown("Ping Timeout")
  /\ UNCHANGED <<tp_set, tp_next, tag_map, send_queue, ping_ar, ars_set,
                 pings_sent, open_result, open_pc, recv_pc, send_pc, pingloop_pc,
                 ready, frames_read, tp_max, tqvars, extvars>>

\* _PingTimeoutHelper returns from ar.wait(self._ping_timeout): the result
\* was set, or the timeout passed.
PingTimeoutHelper(a) ==
  /\ a \in ph_waiting
  /\ a \in ars_set \/ ptimer.dl[a] = 0
  /\ ph_waiting' = ph_waiting \ {a}
  /\ ptimer' = [ptimer EXCEPT !.dl[a] = -2]
  /\ IF a \in ars_set
       THEN UNCHANGED <<m_state, req, sd>>
       ELSE Shutdown("Ping Timeout")
  /\ UNCHANGED <<tp_set, tp_next, tag_map, send_queue, ping_ar, ars_set,
                 pings_sent, open_result, open_pc, recv_pc, send_pc, pingloop_pc,
                 ready, frames_read, tp_max, tqvars, extvars>>

\* A faulty queue that hands out the payload put last.
QueueGet_Newest(q) == [item |-> q[Len(q)], rest |-> SubSeq(q, 1, Len(q) - 1)]

\* self._send_queue.get() on a queue q that is not empty: the payload handed
\* out, and the queue after.
QueueGet(q) == [item |-> Head(q), rest |-> Tail(q)]

\* _SendLoop: a payload is taken off the queue and written.
SendLoop ==
  /\ send_pc = "running"
  /\ send_queue # <<>>
  /\ isActive
  /\ send_queue' = QueueGet(send_queue).rest
  /\ UNCHANGED <<m_state, tp_set, tp_next, tag_map, ping_ar, ars_set,
                 pings_sent, open_result, open_pc, recv_pc, send_pc, pingloop_pc,
                 ph_waiting, ready, req, frames_read, sd, tp_max, ptimer, tqvars, extvars>>

\* _SendLoop: socket.write raises (always so once the socket is closed);
\* the loop shuts the transport down and ends.
SendLoopError ==
  /\ send_pc = "running"
  /\ send_queue # <<>>
  /\ send_queue' = QueueGet(send_queue).rest
  /\ Shutdown("IOError")
  /\ send_pc' = "done"
  /\ UNCHANGED <<tp_set, tp_next, tag_map, ping_ar, ars_set,
                 pings_sent, open_result, open_pc, recv_pc, pingloop_pc,
                 ph_waiting, ready, frames_read, tp_max, ptimer, tqvars, extvars>>

\* _RecvLoop: a frame is read and a _ProcessReply task spawned for it.
RecvLoop(type, tag) ==
  /\ recv_pc = "running"
  /\ isActive
  /\ frames_read < MaxFrames
  /\ frames_read' = frames_read + 1
  /\ ready' = Append(ready, [k |-> "reply", type |-> type, n |-> tag])
  /\ UNCHANGED <<m_state, tp_set, tp_next, tag_map, send_queue, ping_ar, ars_set,
                 pings_sent, open_result, open_pc, recv_pc, send_pc, pingloop_pc,
                 ph_waiting, req, sd, tp_max, ptimer, tqvars, extvars>>

\* _RecvLoop: readAll raises (always so once the socket is closed).
RecvLoopError ==
  /\ recv_pc = "running"
  /\ recv_pc' = "done"
  /\ Shutdown("IOError")
  /\ UNCHANGED <<tp_set, tp_next, tag_map, send_queue, ping_ar, ars_set,
                 pings_sent, open_result, open_pc, send_pc, pingloop_pc,
                 ph_waiting, ready, frames_read, tp_max, ptimer, tqvars, extvars>>

\* MethodDiscardMessage.is_one_way: a discard is sent with header tag 0 and
\* names the discarded tag in its body.
DiscardIsOneWay == TRUE

\* SocketTransportSink.AsyncProcessRequest for the Tdiscarded message that
\* _TimeoutHelper sends for tag t: what is put on the send queue.
DiscardFrames(t) ==
  IF DiscardIsOneWay THEN <<Frame("Tdiscarded", 0, t)>> ELSE <<>>

\* A faulty _TimeoutHelper that tells the server nothing.
TimeoutDiscard_Nothing(q) == send_queue

\* _TimeoutHelper, lines 410-414: the send queue after the discard of the
\* call's tag, if it has one, was sent.
TimeoutDiscard(q) ==
  IF q.tag # 0 THEN send_queue \o DiscardFrames(q.tag) ELSE send_queue

\* The whole request path of one call: TimeoutSink.AsyncProcessMessage,
\* ThrfitMuxMessageSerializerSink.AsyncProcessMessage and
\* SocketTransportSink.AsyncProcessRequest.
\* Calls are numbered in the order in which they are submitted.
AsyncProcessRequest(r, kind) ==
  /\ req[r].st = "new"
  /\ \A o \in Reqs : o < r => req[o].st # "new"
  /\ LET \* TimeoutSink: the TimeoutReplySink is made and its timer scheduled
         q0 == [req[r] EXCEPT !.kind = kind,
                              !.timer = IF HasTimeout(kind) THEN "armed" ELSE "none",
                              !.next = HasTimeout(kind)]
     IN
     IF kind = "bad"
       THEN \* Marshal raises: the error goes to the reply sink
            /\ req' = [req EXCEPT ![r] =
                         [ProcessReturnMessage(q0, Msg("MarshalError"))
                            EXCEPT !.st = "marshal_failed"]]
            /\ UNCHANGED <<tp_set, tp_next, tag_map, send_queue>>
       ELSE IF kind = "oneway"
         THEN \* tag 0, nothing recorded; the reply sink gets an empty return
              /\ send_queue' = Append(send_queue, Frame("Tdispatch", 0, 0))
              /\ req' = [req EXCEPT ![r] =
                           [ProcessReturnMessage(q0, Msg("OneWayAck"))
                              EXCEPT !.st = "sent"]]
              /\ UNCHANGED <<tp_set, tp_next, tag_map>>
         ELSE IF TagPoolGet = {}
           THEN \* TagPool.get raises; the exception leaves AsyncProcessRequest
                /\ req' = [req EXCEPT ![r] = [q0 EXCEPT !.st = "raised"]]
                /\ UNCHANGED <<tp_set, tp_next, tag_map, send_queue>>
           ELSE \E g \in TagPoolGet :
                /\ tp_set' = g.set
                /\ tp_next' = g.next
                /\ tag_map' = [t \in (DOMAIN tag_map) \cup {g.tag} |->
                                 IF t = g.tag THEN r ELSE tag_map[t]]
                /\ send_queue' = Append(send_queue, Frame("Tdispatch", g.tag, 0))
                /\ req' = [req EXCEPT ![r] = [q0 EXCEPT !.st = "sent", !.tag = g.tag]]
  /\ UNCHANGED <<m_state, ping_ar, ars_set, pings_sent, open_result, open_pc,
                 recv_pc, send_pc, pingloop_pc, ph_waiting, ready, frames_read,
                 sd, tp_max, ptimer, tqvars, extvars>>

\* The timer worker pops the call's entry and spawns its action
\* (timer_queue.py, lines 92-101): only an entry that is not cancelled.
TimerFires(r) ==
  /\ req[r].timer = "armed"
  /\ req' = [req EXCEPT ![r].timer = "spawned"]
  /\ ready' = Append(ready, [k |-> "timeout", type |-> "none", n |-> r])
  /\ UNCHANGED <<m_state, tp_set, tp_next, tag_map, send_queue, ping_ar, ars_set,
                 pings_sent, open_result, open_pc, recv_pc, send_pc, pingloop_pc,
                 ph_waiting, frames_read, sd, tp_max, ptimer, tqvars, extvars>>

\* TimeoutReplySink._TimeoutHelper of call r begins.
TimeoutHelper(r) ==
  /\ ready # <<>>
  /\ Head(ready) = [k |-> "timeout", type |-> "none", n |-> r]
  /\ ready' = Tail(ready)
  /\ IF req[r].next
       THEN /\ req' = [req EXCEPT ![r] =
                         [CompleteFuture(req[r], Msg("Timeout"))
                            EXCEPT !.next = FALSE, !.timer = "ran"]]
            /\ send_queue' = TimeoutDiscard(req[r])
       ELSE /\ req' = [req EXCEPT ![r].timer = "ran"]
            /\ UNCHANGED send_queue
  /\ UNCHANGED <<m_state, tp_set, tp_next, tag_map, ping_ar, ars_set,
                 pings_sent, open_result, open_pc, recv_pc, send_pc, pingloop_pc,
                 ph_waiting, frames_read, sd, tp_max, ptimer, tqvars, extvars>>

\* A faulty _ReleaseTag that pops the entry under the least tag in the map,
\* not the one under the frame's tag.
ReleaseTag_LeastTag(tag) ==
  LET least == IF DOMAIN tag_map = {}
                 THEN 0
                 ELSE CHOOSE t \in DOMAIN tag_map : \A u \in DOMAIN tag_map : t <= u
  IN [stack |-> IF least # 0 THEN tag_map[least] ELSE 0,
      map |-> [t \in (DOMAIN tag_map) \ {least} |-> tag_map[t]],
      set |-> TagPoolRelease(tp_set, tag)]

\* _ReleaseTag(tag): the stack under the tag, if any, and the pool's set after
ReleaseTag(tag) ==
  [stack |-> IF tag \in DOMAIN tag_map THEN tag_map[tag] ELSE 0,
   map |-> [t \in (DOMAIN tag_map) \ {tag} |-> tag_map[t]],
   set |-> TagPoolRelease(tp_set, tag)]

\* _ProcessReply of a frame (type, tag) begins.
ProcessReply(type, tag) ==
  /\ ready # <<>>
  /\ Head(ready) = [k |-> "reply", type |-> type, n |-> tag]
  /\ ready' = Tail(ready)
  /\ IF tag = 1 /\ type = "Rping"
       THEN \* _OnPingResponse; with no ping outstanding ar.set() raises on None
            /\ ars_set' = IF ping_ar # 0 THEN ars_set \cup {ping_ar} ELSE ars_set
            /\ ping_ar' = 0
            /\ UNCHANGED <<tp_set, tag_map, req>>
       ELSE IF tag # 0
         THEN LET rel == ReleaseTag(tag) IN
              /\ tag_map' = rel.map
              /\ tp_set' = rel.set
              /\ req' = IF rel.stack # 0
                          THEN [req EXCEPT ![rel.stack] =
                                  DispatchReplyMessage(req[rel.stack], Unmarshal(type, tag))]
                          ELSE req
              /\ UNCHANGED <<ars_set, ping_ar>>
         ELSE UNCHANGED <<ars_set, ping_ar, tp_set, tag_map, req>>
  /\ UNCHANGED <<m_state, tp_next, send_queue, pings_sent, open_result, open_pc,
                 recv_pc, send_pc, pingloop_pc, ph_waiting, frames_read, sd, tp_max, ptimer, tqvars, extvars>>

\* A spawned _PingTimeoutHelper begins: it takes self._ping_ar and waits on
\* it; when that is None, ar.wait raises and the task ends.
PingTimeoutHelperStart ==
  /\ ready # <<>>
  /\ Head(ready).k = "pinghelper"
  /\ ready' = Tail(ready)
  /\ ph_waiting' = IF ping_ar # 0 THEN ph_waiting \cup {ping_ar} ELSE ph_waiting
  /\ ptimer' = IF ping_ar # 0 THEN [ptimer EXCEPT !.dl[ping_ar] = PingTimeout] ELSE ptimer
  /\ UNCHANGED <<m_state, tp_set, tp_next, tag_map, send_queue, ping_ar, ars_set,
                 pings_sent, open_result, open_pc, recv_pc, send_pc, pingloop_pc,
                 req, frames_read, sd, tp_max, tqvars, extvars>>

\* The waits that are running: those of the helpers and the ping loop's sleep.
PingWaits_SleepOnly == {ptimer.wake} \ {-1}

PingWaits == ({ptimer.dl[a] : a \in ph_waiting} \cup {ptimer.wake}) \ {-1}

\* Time passes, up to the moment the next wait ends.  It passes while no
\* task is ready to run: none spawned and not begun, none whose AsyncResult
\* has been set.
PingTick ==
  /\ ready = <<>>
  /\ ph_waiting \cap ars_set = {}
  /\ ~(open_pc = "wait_ping" /\ 1 \in ars_set)
  /\ PingWaits # {}
  /\ 0 \notin PingWaits
  /\ LET d == CHOOSE x \in PingWaits : \A y \in PingWaits : x <= y
     IN ptimer' = [wake |-> IF ptimer.wake > 0 THEN ptimer.wake - d ELSE ptimer.wake,
                   dl |-> [a \in PingIds |->
                             IF ptimer.dl[a] > 0 THEN ptimer.dl[a] - d ELSE ptimer.dl[a]]]
  /\ UNCHANGED <<m_state, tp_set, tp_next, tag_map, send_queue, ping_ar, ars_set,
                 pings_sent, open_result, open_pc, recv_pc, send_pc, pingloop_pc,
                 ph_waiting, ready, req, frames_read, sd, tp_max, tqvars, extvars>>

MuxNext ==
  \/ Open
  \/ OpenFails
  \/ OpenResume
  \/ PingLoop
  \/ \E a \in PingIds : PingTimeoutHelper(a)
  \/ PingTimeoutHelperStart
  \/ SendLoop
  \/ SendLoopError
  \/ \E f \in RecvFrames : RecvLoop(f.type, f.tag)
  \/ RecvLoopError
  \/ \E r \in Reqs, kind \in Kinds : AsyncProcessRequest(r, kind)
  \/ \E r \in Reqs : TimerFires(r)
  \/ \E r \in Reqs : TimeoutHelper(r)
  \/ \E f \in RecvFrames : ProcessReply(f.type, f.tag)
  \/ PingTick

----------------------------------------------------------------------------
(***************************************************************************)
(* scales/thrift/sink.py: the serial transport, one call in flight per     *)
(* connection.                                                             *)
(***************************************************************************)
SReqs == 1..NumSReqs

\* What the transaction finds in the call's Deadline property: none, one
\* that has passed when the task begins, or one still ahead.
Deadlines == {"none", "past", "future"}

SReqInit == [pc |-> "new", deadline |-> "none", result |-> "none", resp |-> 0]

SerInit ==
  /\ s_state = "Idle"
  /\ s_sock = FALSE
  /\ s_open_result = FALSE
  /\ s_opening = 0
  /\ s_processing = 0
  /\ s_req = [r \in SReqs |-> SReqInit]
  /\ s_faults = 0
  /\ s_writes = 0
  /\ s_opens = 0
  /\ s_closes = 0

\* The fields of the sink that Close and _Fault work on.
SinkNow ==
  [state |-> s_state, sock |-> s_sock, open_result |-> s_open_result,
   processing |-> s_processing, req |-> s_req, faults |-> s_faults]

SetSink(k) ==
  /\ s_state' = k.state
  /\ s_sock' = k.sock
  /\ s_open_result' = k.open_result
  /\ s_processing' = k.processing
  /\ s_req' = k.req
  /\ s_faults' = k.faults

\* The state property.
SerialState(k) == IF k.sock THEN "Open" ELSE k.state

\* `if self._processing:` a task that died of an exception is false.
Truthy(k) == k.processing # 0 /\ k.req[k.processing].pc # "dead"

\* Close: the task in flight is killed where it waits.
SerialCloseOf(k) ==
  [k EXCEPT !.state = "Closed", !.sock = FALSE, !.open_result = FALSE,
            !.processing = IF Truthy(k) THEN 0 ELSE @,
            !.req = IF Truthy(k) THEN [@ EXCEPT ![k.processing].pc = "killed"] ELSE @]

\* _Fault
SerialFaultOf(k) ==
  IF SerialState(k) = "Closed" THEN k
  ELSE [SerialCloseOf(k) EXCEPT !.faults = @ + 1]

\* Open
SerialOpen ==
  /\ s_opens < MaxOpens
  /\ s_opens' = s_opens + 1
  /\ IF ~s_open_result
       THEN s_open_result' = TRUE /\ s_opening' = s_opening + 1
       ELSE UNCHANGED <<s_open_result, s_opening>>
  /\ UNCHANGED <<s_state, s_sock, s_processing, s_req, s_faults, s_writes, s_closes,
                 tqvars, muxvars, chvars, zkvars, auxvars>>

\* _OpenImpl, on the task SafeLink started: the socket opens.
SerialOpenImpl ==
  /\ s_opening > 0
  /\ s_opening' = s_opening - 1
  /\ s_sock' = TRUE
  /\ s_state' = "Open"
  /\ UNCHANGED <<s_open_result, s_processing, s_req, s_faults, s_writes, s_opens,
                 s_closes, tqvars, muxvars, chvars, zkvars, auxvars>>

\* _OpenImpl: socket.open() raises.
SerialOpenImplFails ==
  /\ s_opening > 0
  /\ s_opening' = s_opening - 1
  /\ SetSink(SerialFaultOf(SinkNow))
  /\ UNCHANGED <<s_writes, s_opens, s_closes, tqvars, muxvars, chvars, zkvars, auxvars>>

\* Close, called by the owner of the sink.
SerialClose ==
  /\ s_closes < MaxCloses
  /\ s_closes' = s_closes + 1
  /\ SetSink(SerialCloseOf(SinkNow))
  /\ UNCHANGED <<s_opening, s_writes, s_opens, tqvars, muxvars, chvars, zkvars, auxvars>>

Busy_Never == FALSE

\* `if self._processing is not None`
Busy == s_processing # 0

\* AsyncProcessRequest: calls are numbered in the order they are made.
SerialAsyncProcessRequest(r, dl) ==
  /\ s_req[r].pc = "new"
  /\ \A o \in SReqs : o < r => s_req[o].pc # "new"
  /\ IF Busy
       THEN /\ s_req' = [s_req EXCEPT ![r] = [@ EXCEPT !.pc = "done",
                                                !.result = "concurrency",
                                                !.resp = @ + 1]]
            /\ UNCHANGED s_processing
       ELSE /\ s_req' = [s_req EXCEPT ![r] = [@ EXCEPT !.pc = "spawned", !.deadline = dl]]
            /\ s_processing' = r
  /\ UNCHANGED <<s_state, s_sock, s_open_result, s_opening, s_faults, s_writes,
                 s_opens, s_closes, tqvars, muxvars, chvars, zkvars, auxvars>>

\* The `except gevent.Timeout` branch of _AsyncProcessTransaction: when
\* socket.open() raises there, the exception ends the task.
TimeoutBranch(r, reopened) ==
  /\ s_sock' = reopened
  /\ IF reopened
       THEN /\ s_processing' = 0
            /\ s_req' = [s_req EXCEPT ![r] = [@ EXCEPT !.pc = "done",
                                                !.result = "timeout",
                                                !.resp = @ + 1]]
       ELSE /\ s_req' = [s_req EXCEPT ![r].pc = "dead"]
            /\ UNCHANGED s_processing
  /\ UNCHANGED <<s_state, s_open_result, s_faults>>

\* The `except Exception` branch of _AsyncProcessTransaction.
FaultBranch(r) ==
  LET k == SerialFaultOf(SinkNow) IN
    SetSink([k EXCEPT !.processing = 0,
                      !.req = [@ EXCEPT ![r] = [@ EXCEPT !.pc = "done",
                                                  !.result = "error",
                                                  !.resp = @ + 1]]])

\* The transaction task begins and finds its deadline passed.
TransactionDeadlinePast(r, reopened) ==
  /\ s_req[r].pc = "spawned"
  /\ s_req[r].deadline = "past"
  /\ TimeoutBranch(r, reopened)
  /\ UNCHANGED <<s_opening, s_writes, s_opens, s_closes, tqvars, muxvars, chvars, zkvars, auxvars>>

\* The transaction task begins, writes the request and waits for the reply.
TransactionWrite(r) ==
  /\ s_req[r].pc = "spawned"
  /\ s_req[r].deadline # "past"
  /\ s_sock
  /\ s_writes' = s_writes + 1
  /\ s_req' = [s_req EXCEPT ![r].pc = "io"]
  /\ UNCHANGED <<s_state, s_sock, s_open_result, s_opening, s_processing, s_faults,
                 s_opens, s_closes, tqvars, muxvars, chvars, zkvars, auxvars>>

\* The transaction task begins and socket.write raises (it does so on a
\* socket that is not open).
TransactionWriteFails(r) ==
  /\ s_req[r].pc = "spawned"
  /\ s_req[r].deadline # "past"
  /\ s_writes' = s_writes + 1
  /\ FaultBranch(r)
  /\ UNCHANGED <<s_opening, s_opens, s_closes, tqvars, muxvars, chvars, zkvars, auxvars>>

\* The reply has been read: _ProcessReply is spawned.
TransactionReply(r) ==
  /\ s_req[r].pc = "io"
  /\ s_processing' = 0
  /\ s_req' = [s_req EXCEPT ![r].pc = "reply"]
  /\ UNCHANGED <<s_state, s_sock, s_open_result, s_opening, s_faults, s_writes,
                 s_opens, s_closes, tqvars, muxvars, chvars, zkvars, auxvars>>

\* The gevent.Timeout armed for the deadline fires while the task waits.
TransactionTimeout(r, reopened) ==
  /\ s_req[r].pc = "io"
  /\ s_req[r].deadline = "future"
  /\ TimeoutBranch(r, reopened)
  /\ UNCHANGED <<s_opening, s_writes, s_opens, s_closes, tqvars, muxvars, chvars, zkvars, auxvars>>

\* readAll raises.
TransactionReadFails(r) ==
  /\ s_req[r].pc = "io"
  /\ FaultBranch(r)
  /\ UNCHANGED <<s_opening, s_writes, s_opens, s_closes, tqvars, muxvars, chvars, zkvars, auxvars>>

\* _ProcessReply: the reply, or the error of decoding it, goes up the stack.
SerialProcessReply(r) ==
  /\ s_req[r].pc = "reply"
  /\ s_req' = [s_req EXCEPT ![r] = [@ EXCEPT !.pc = "done", !.result = "reply",
                                      !.resp = @ + 1]]
  /\ UNCHANGED <<s_state, s_sock, s_open_result, s_opening, s_processing, s_faults,
                 s_writes, s_opens, s_closes, tqvars, muxvars, chvars, zkvars, auxvars>>

SerialNext ==
  \/ SerialOpen
  \/ SerialOpenImpl
  \/ SerialOpenImplFails
  \/ SerialClose
  \/ \E r \in SReqs, dl \in Deadlines : SerialAsyncProcessRequest(r, dl)
  \/ \E r \in SReqs, reopened \in BOOLEAN : TransactionDeadlinePast(r, reopened)
  \/ \E r \in SReqs : TransactionWrite(r)
  \/ \E r \in SReqs : TransactionWriteFails(r)
  \/ \E r \in SReqs : TransactionReply(r)
  \/ \E r \in SReqs, reopened \in BOOLEAN : TransactionTimeout(r, reopened)
  \/ \E r \in SReqs : TransactionReadFails(r)
  \/ \E r \in SReqs : SerialProcessReply(r)

----------------------------------------------------------------------------
(***************************************************************************)
(* scales/sink.py and scales/dispatch.py: a call on its way through the    *)
(* TimeoutSink, and its return message on the way back through the         *)
(* TimeoutReplySink to the dispatcher, which completes the caller's        *)
(* future.                                                                 *)
(***************************************************************************)
CReqs == 1..NumCReqs

\* The Deadline property of a message: an absolute time, or 0 for none.
\* The clock starts at 1, so a deadline of 1 or more may lie behind it.
CDeadlines == 0..MaxTime

CReqInit == [st |-> "new", deadline |-> 0, timer |-> "none", next |-> FALSE,
             evt |-> FALSE, fut |-> <<>>]

ChainInit ==
  /\ c_req = [r \in CReqs |-> CReqInit]
  /\ c_now = 1

\* MethodReturnMessage(error=...): the error is an instance of the class
\* named; stack tells whether the message carries a stack string.
Ret(error, stack) == [error |-> error, stack |-> stack]

\* The errors of the return messages that reach the dispatcher.
Errors == {"none", "TimeoutError", "ServerError"}

\* `msg.error is TimeoutError`: true of the class object alone, and the
\* errors of return messages are instances.
ErrorIsTimeoutErrorClass(error) == error = "class TimeoutError"

\* MessageDispatcher._WrapException
WrapException(msg) ==
  IF ErrorIsTimeoutErrorClass(msg.error)
    THEN msg.error
    ELSE IF msg.stack THEN "ScalesError" ELSE msg.error

\* MessageDispatcher.AsyncProcessResponse: the future is set with the return
\* value or with the wrapped exception; recorded with the message it is from.
DispatcherComplete(q, msg) ==
  [q EXCEPT !.fut = Append(@, [error |-> msg.error, stack |-> msg.stack,
                               set |-> IF msg.error # "none"
                                         THEN WrapException(msg)
                                         ELSE "return_value"])]

\* TimeoutSink.AsyncProcessMessage with TimeoutReplySink.__init__: a message
\* with a Deadline gets a TimeoutReplySink whose _TimeoutHelper is scheduled
\* at the deadline; the message goes on to the next sink.
TimeoutSinkProcess(r, d) ==
  /\ c_req[r].st = "new"
  /\ \A o \in CReqs : o < r => c_req[o].st # "new"
  /\ c_req' = [c_req EXCEPT ![r] =
                 [@ EXCEPT !.st = "forwarded", !.deadline = d,
                           !.timer = IF d # 0 THEN "armed" ELSE "none",
                           !.next = (d # 0)]]
  /\ UNCHANGED <<c_now, tqvars, muxvars, servars, zkvars, auxvars>>

\* The timer worker finds the entry due and spawns _TimeoutHelper.
ChainTimerFires(r) ==
  /\ c_req[r].timer = "armed"
  /\ c_req[r].deadline <= c_now
  /\ c_req' = [c_req EXCEPT ![r].timer = "spawned"]
  /\ UNCHANGED <<c_now, tqvars, muxvars, servars, zkvars, auxvars>>

\* TimeoutReplySink._TimeoutHelper
ChainTimeoutHelper(r, stack) ==
  /\ c_req[r].timer = "spawned"
  /\ c_req' = [c_req EXCEPT ![r] =
                 IF c_req[r].next
                   THEN [DispatcherComplete(c_req[r], Ret("TimeoutError", stack))
                           EXCEPT !.evt = TRUE, !.timer = "ran", !.next = FALSE]
                   ELSE [@ EXCEPT !.evt = TRUE, !.timer = "ran"]]
  /\ UNCHANGED <<c_now, tqvars, muxvars, servars, zkvars, auxvars>>

\* The sinks below deliver the call's return message:
\* TimeoutReplySink.ProcessReturnMessage when the call has a deadline, the
\* dispatcher directly when it has none.
ChainReply(r, error, stack) ==
  /\ c_req[r].st = "forwarded"
  /\ c_req' = [c_req EXCEPT ![r] =
                 LET c == [c_req[r] EXCEPT
                             !.st = "replied",
                             !.timer = IF @ = "armed" THEN "cancelled" ELSE @]
                 IN IF c.deadline = 0 \/ c.next
                      THEN DispatcherComplete(c, Ret(error, stack))
                      ELSE c]
  /\ UNCHANGED <<c_now, tqvars, muxvars, servars, zkvars, auxvars>>

\* Time passes.
ChainTick ==
  /\ c_now < MaxTime
  /\ c_now' = c_now + 1
  /\ UNCHANGED <<c_req, tqvars, muxvars, servars, zkvars, auxvars>>

ChainNext ==
  \/ ChainTick
  \/ \E r \in CReqs, d \in CDeadlines : TimeoutSinkProcess(r, d)
  \/ \E r \in CReqs : ChainTimerFires(r)
  \/ \E r \in CReqs, stack \in BOOLEAN : ChainTimeoutHelper(r, stack)
  \/ \E r \in CReqs, error \in Errors, stack \in BOOLEAN : ChainReply(r, error, stack)

----------------------------------------------------------------------------
(***************************************************************************)
(* scales/loadbalancer/zookeeper.py: the ServerSet, with the ZooKeeper     *)
(* node it watches.  A watch that fired is delivered later, and the        *)
(* delivery reads the node as it is then.                                  *)
(***************************************************************************)
Members == 1..NumMembers

ZkInit ==
  /\ zk_exists = TRUE
  /\ zk_children = {}
  /\ zk_ver = [m \in Members |-> 0]
  /\ zk_changes = 0
  /\ dw_pend = TRUE
  /\ cw_n = 0
  /\ cw_pend = 0
  /\ ss_nodes = {}
  /\ ss_members = {}
  /\ ss_ver = [m \in Members |-> 0]
  /\ ss_watching = FALSE
  /\ ss_queue = <<>>
  /\ ss_obs = 0
  /\ ss_log = <<>>
  /\ nw_pc = "get"
  /\ nw_began = -1
  /\ nw_work = [todo |-> {}, new |-> {}, ver |-> [m \in Members |-> 0],
                removed |-> {}, obs |-> 0]
  /\ ss_joins = [m \in Members |-> 0]
  /\ ss_leaves = [m \in Members |-> 0]
  /\ it_count = 0
  /\ it_total = 0

\* A child of the parent path is created, with data not seen before.
ZkAddChild(m) ==
  /\ zk_changes < MaxZkChanges
  /\ zk_exists
  /\ m \notin zk_children
  /\ zk_children' = zk_children \cup {m}
  /\ zk_ver' = [zk_ver EXCEPT ![m] = @ + 1]
  /\ zk_changes' = zk_changes + 1
  /\ cw_pend' = cw_n
  /\ UNCHANGED <<zk_exists, dw_pend, cw_n, ssvars, tqvars, muxvars, servars, chvars, auxvars>>

\* A child of the parent path is deleted.
ZkRemoveChild(m) ==
  /\ zk_changes < MaxZkChanges
  /\ zk_exists
  /\ m \in zk_children
  /\ zk_children' = zk_children \ {m}
  /\ zk_changes' = zk_changes + 1
  /\ cw_pend' = cw_n
  /\ UNCHANGED <<zk_exists, zk_ver, dw_pend, cw_n, ssvars, tqvars, muxvars, servars, chvars, auxvars>>

\* The parent path is deleted (ZooKeeper deletes a node without children).
ZkDeleteParent ==
  /\ zk_changes < MaxZkChanges
  /\ zk_exists
  /\ zk_children = {}
  /\ zk_exists' = FALSE
  /\ zk_changes' = zk_changes + 1
  /\ dw_pend' = TRUE
  /\ cw_pend' = cw_n
  /\ UNCHANGED <<zk_children, zk_ver, cw_n, ssvars, tqvars, muxvars, servars, chvars, auxvars>>

\* The parent path is created.
ZkCreateParent ==
  /\ zk_changes < MaxZkChanges
  /\ ~zk_exists
  /\ zk_exists' = TRUE
  /\ zk_changes' = zk_changes + 1
  /\ dw_pend' = TRUE
  /\ UNCHANGED <<zk_children, zk_ver, cw_n, cw_pend, ssvars, tqvars, muxvars, servars, chvars, auxvars>>

\* One call of on_join or on_leave: the member record it carries, the
\* observation (a call of _on_set_changed, or a _data_changed that saw the
\* path gone) it belongs to, and whether another callback was in progress
\* when it began.
Callback(k, m, v, obs, over) == [k |-> k, m |-> m, v |-> v, obs |-> obs, over |-> over]

\* _on_set_changed(children): the new _nodes and the notification queue.
OnSetChanged(children) ==
  [nodes |-> children,
   queue |-> Append(ss_queue, [new |-> children \ ss_nodes,
                               removed |-> ss_nodes \ children,
                               obs |-> ss_obs + 1])]

\* The members of a set in the order a loop goes through them.
RECURSIVE InOrder(_)
InOrder(S) ==
  IF S = {} THEN <<>>
  ELSE LET m == CHOOSE x \in S : \A y \in S : x <= y
       IN <<m>> \o InOrder(S \ {m})

\* The on_leave calls of _send_all_removed for the members in S.
AllRemovedCalls(S) ==
  [i \in 1..Cardinality(S) |->
     Callback("leave", InOrder(S)[i], ss_ver[InOrder(S)[i]], ss_obs + 1,
              nw_pc = "callback")]

\* `for k in self._members.keys(): member = self._members.pop(k)`: over a
\* list of the keys (Python 2) the loop pops every member; over a view of the
\* dict (Python 3) the pop of the first key ends the loop with a RuntimeError
\* at its next step.
AllRemovedSets == {ss_members} \cup {{m} : m \in ss_members}

\* _send_all_removed: the cached members are popped and on_leave is called
\* with each.  It runs on the task that delivers the DataWatch.
SendAllRemoved ==
  \E S \in AllRemovedSets :
    /\ ss_members' = ss_members \ S
    /\ ss_ver' = [m \in Members |-> IF m \in S THEN 0 ELSE ss_ver[m]]
    /\ ss_log' = ss_log \o AllRemovedCalls(S)
    /\ ss_leaves' = [m \in Members |-> IF m \in S THEN ss_leaves[m] + 1 ELSE ss_leaves[m]]

\* The DataWatch calls _data_changed with the node as it is now; the first
\* call is the one DataWatch makes when _monitor sets it up.  _begin_watch
\* makes a ChildrenWatch, which calls _on_set_changed with the children.
DataChanged ==
  /\ dw_pend
  /\ dw_pend' = FALSE
  /\ IF ~zk_exists
       THEN /\ ss_watching' = FALSE
            /\ SendAllRemoved
            /\ ss_obs' = ss_obs + 1
            /\ UNCHANGED <<cw_n, ss_nodes, ss_queue>>
       ELSE IF ~ss_watching
         THEN /\ ss_watching' = TRUE
              /\ cw_n' = cw_n + 1
              /\ ss_nodes' = OnSetChanged(zk_children).nodes
              /\ ss_queue' = OnSetChanged(zk_children).queue
              /\ ss_obs' = ss_obs + 1
              /\ UNCHANGED <<ss_members, ss_ver, ss_log, ss_leaves>>
         ELSE UNCHANGED <<ss_watching, cw_n, ss_nodes, ss_queue, ss_obs, ss_members,
                          ss_ver, ss_log, ss_leaves>>
  /\ UNCHANGED <<zk_exists, zk_children, zk_ver, zk_changes, cw_pend, nw_pc, nw_work, nw_began,
                 ss_joins, it_count, it_total, tqvars, muxvars, servars, chvars, auxvars>>

\* A ChildrenWatch whose watch fired reads the children again: it calls
\* _on_set_changed with them, or stops when the parent path is gone.
ChildrenChanged ==
  /\ cw_pend > 0
  /\ cw_pend' = cw_pend - 1
  /\ IF zk_exists
       THEN /\ ss_nodes' = OnSetChanged(zk_children).nodes
            /\ ss_queue' = OnSetChanged(zk_children).queue
            /\ ss_obs' = ss_obs + 1
            /\ UNCHANGED cw_n
       ELSE /\ cw_n' = cw_n - 1
            /\ UNCHANGED <<ss_nodes, ss_queue, ss_obs>>
  /\ UNCHANGED <<zk_exists, zk_children, zk_ver, zk_changes, dw_pend, ss_members,
                 ss_ver, ss_watching, ss_log, nw_pc, nw_work, nw_began, ss_joins, ss_leaves,
                 it_count, it_total, tqvars, muxvars, servars, chvars, auxvars>>

\* _notification_worker goes on to its next callback: on_join for each
\* member fetched, then, for each removed node found in the cache, the pop
\* and on_leave; with none left it is back at queue.get.  The worker is
\* "in a callback" until its next step.
Notify(work, members, vers) ==
  IF work.new # {}
    THEN \E m \in work.new :
           /\ ss_log' = Append(ss_log, Callback("join", m, work.ver[m], work.obs, FALSE))
           /\ ss_joins' = [ss_joins EXCEPT ![m] = @ + 1]
           /\ ss_members' = members
           /\ ss_ver' = vers
           /\ nw_work' = [work EXCEPT !.new = @ \ {m}]
           /\ nw_pc' = "callback"
           /\ UNCHANGED ss_leaves
    ELSE IF work.removed \cap members # {}
      THEN \E m \in work.removed \cap members :
             /\ ss_log' = Append(ss_log, Callback("leave", m, vers[m], work.obs, FALSE))
             /\ ss_leaves' = [ss_leaves EXCEPT ![m] = @ + 1]
             /\ ss_members' = members \ {m}
             /\ ss_ver' = [vers EXCEPT ![m] = 0]
             /\ nw_work' = [work EXCEPT !.removed = @ \ {m}]
             /\ nw_pc' = "callback"
             /\ UNCHANGED ss_joins
      ELSE /\ ss_members' = members
           /\ ss_ver' = vers
           /\ nw_work' = [todo |-> {}, new |-> {}, ver |-> [m \in Members |-> 0],
                          removed |-> {}, obs |-> 0]
           /\ nw_pc' = "get"
           /\ UNCHANGED <<ss_log, ss_joins, ss_leaves>>

\* The worker begins a work item.  With no new node it goes on to the
\* notifications at once; otherwise _zk_nodes_to_members asks ZooKeeper for
\* the first new node and the worker waits for the answer.
Process(item) ==
  LET work == [todo |-> item.new, new |-> {}, ver |-> [m \in Members |-> 0],
               removed |-> item.removed, obs |-> item.obs]
  IN IF item.new = {}
       THEN Notify(work, ss_members, ss_ver)
       ELSE /\ nw_work' = work
            /\ nw_pc' = "fetch"
            /\ UNCHANGED <<ss_members, ss_ver, ss_log, ss_joins, ss_leaves>>

\* `self._cb_blocker.ensure_safe()`: the event is set while no iteration is
\* in progress.
EnsureSafe == it_count = 0

\* _notification_worker takes the next work item; while the blocker's event
\* is clear it waits in ensure_safe.
NotificationWorkerGet ==
  /\ nw_pc = "get"
  /\ ss_queue # <<>>
  /\ ss_queue' = Tail(ss_queue)
  /\ nw_began' = IF nw_began = -1 THEN zk_changes ELSE nw_began
  /\ IF EnsureSafe
       THEN Process(Head(ss_queue))
       ELSE /\ nw_work' = [todo |-> Head(ss_queue).new, new |-> {},
                           ver |-> [m \in Members |-> 0],
                           removed |-> Head(ss_queue).removed,
                           obs |-> Head(ss_queue).obs]
            /\ nw_pc' = "safe"
            /\ UNCHANGED <<ss_members, ss_ver, ss_log, ss_joins, ss_leaves>>
  /\ UNCHANGED <<zk_exists, zk_children, zk_ver, zk_changes, dw_pend, cw_n, cw_pend,
                 ss_nodes, ss_watching, ss_obs, it_count, it_total,
                 tqvars, muxvars, servars, chvars, auxvars>>

\* The blocker's event is set again and the worker leaves ensure_safe.
NotificationWorkerSafe ==
  /\ nw_pc = "safe"
  /\ EnsureSafe
  /\ Process([new |-> nw_work.todo, removed |-> nw_work.removed, obs |-> nw_work.obs])
  /\ UNCHANGED <<zk_exists, zk_children, zk_ver, zk_changes, dw_pend, cw_n, cw_pend,
                 ss_nodes, ss_watching, nw_began, ss_queue, ss_obs, it_count, it_total,
                 tqvars, muxvars, servars, chvars, auxvars>>

\* _safe_zk_node_to_member(n) returns: a node that is gone is skipped.  The
\* worker asks for the next new node, or, when n was the last one, updates
\* _members with the members fetched and begins the notifications.
NotificationWorkerFetch(n) ==
  /\ nw_pc = "fetch"
  /\ n \in nw_work.todo
  /\ LET found == zk_exists /\ n \in zk_children
         work == [nw_work EXCEPT !.todo = @ \ {n},
                                 !.new = IF found THEN @ \cup {n} ELSE @,
                                 !.ver = IF found THEN [@ EXCEPT ![n] = zk_ver[n]] ELSE @]
     IN IF work.todo = {}
          THEN Notify(work, ss_members \cup work.new,
                      [m \in Members |-> IF m \in work.new THEN work.ver[m] ELSE ss_ver[m]])
          ELSE /\ nw_work' = work
               /\ UNCHANGED <<nw_pc, ss_members, ss_ver, ss_log, ss_joins, ss_leaves>>
  /\ UNCHANGED <<zk_exists, zk_children, zk_ver, zk_changes, dw_pend, cw_n, cw_pend,
                 ss_nodes, ss_watching, nw_began, ss_queue, ss_obs, it_count, it_total,
                 tqvars, muxvars, servars, chvars, auxvars>>

\* The callback the worker called returns, and the worker goes on.
NotificationWorkerNext ==
  /\ nw_pc = "callback"
  /\ Notify(nw_work, ss_members, ss_ver)
  /\ UNCHANGED <<zk_exists, zk_children, zk_ver, zk_changes, dw_pend, cw_n, cw_pend,
                 ss_nodes, ss_watching, nw_began, ss_queue, ss_obs, it_count, it_total,
                 tqvars, muxvars, servars, chvars, auxvars>>

\* __iter__ enters the callback blocker and asks ZooKeeper for the children.
IterBegin ==
  /\ it_total < MaxIters
  /\ it_total' = it_total + 1
  /\ it_count' = it_count + 1
  /\ UNCHANGED <<zk_exists, zk_children, zk_ver, zk_changes, dw_pend, cw_n, cw_pend,
                 ss_nodes, ss_members, ss_ver, ss_watching, ss_queue, ss_obs, ss_log,
                 nw_pc, nw_work, nw_began, ss_joins, ss_leaves, tqvars, muxvars, servars, chvars, auxvars>>

\* __iter__ has fetched the members and leaves the callback blocker.
IterEnd ==
  /\ it_count > 0
  /\ it_count' = it_count - 1
  /\ UNCHANGED <<zk_exists, zk_children, zk_ver, zk_changes, dw_pend, cw_n, cw_pend,
                 ss_nodes, ss_members, ss_ver, ss_watching, ss_queue, ss_obs, ss_log,
                 nw_pc, nw_work, nw_began, ss_joins, ss_leaves, it_total,
                 tqvars, muxvars, servars, chvars, auxvars>>

ZkNext ==
  \/ \E m \in Members : ZkAddChild(m)
  \/ \E m \in Members : ZkRemoveChild(m)
  \/ ZkDeleteParent
  \/ ZkCreateParent
  \/ DataChanged
  \/ ChildrenChanged
  \/ NotificationWorkerGet
  \/ NotificationWorkerSafe
  \/ \E n \in Members : NotificationWorkerFetch(n)
  \/ NotificationWorkerNext
  \/ IterBegin
  \/ IterEnd

-----------------------------------------------------------------------------
(***************************************************************************)
(* scales/thriftmux/sink.py: the frame header, as bytes 0..255.            *)
(***************************************************************************)
\* The message types of the protocol: Tdispatch, Rdispatch, Tping, Rping,
\* Tdiscarded, Rerr, BAD_Rerr.
HeaderTypes == {2, -2, 65, -65, 66, -128, 127}

\* Tags of up to TagBits bits: every power of two, its predecessor, and two
\* mixed patterns (0x123456, 0xFF00FF).
HeaderTags ==
  {2^k : k \in 0..(TagBits - 1)} \cup {2^k - 1 : k \in 0..TagBits}
    \cup {1193046, 16711935}

\* Payload lengths _BuildHeader is called with.
DataLens == {0, 300}

\* struct.pack('b', x): the two's complement byte of x in -128..127.
PackSignedByte(x) == x % 256

\* struct.pack('!i', n) for n >= 0: four bytes, most significant first.
PackInt(n) ==
  <<(n \div 16777216) % 256, (n \div 65536) % 256, (n \div 256) % 256, n % 256>>

\* struct.unpack('!i', b): a signed 32-bit integer.
UnpackInt(b) ==
  (IF b[1] >= 128 THEN b[1] - 256 ELSE b[1]) * 16777216
    + b[2] * 65536 + b[3] * 256 + b[4]

\* [tag >> 16 & 0xff, tag >> 8 & 0xff, tag & 0xff]
EncodeTag(tag) == <<(tag \div 65536) % 256, (tag \div 256) % 256, tag % 256>>

\* pack('!ibBBB', 1 + 3 + data_len, msg_type, *_EncodeTag(tag))
BuildHeader(tag, msg_type, data_len) ==
  PackInt(1 + 3 + data_len) \o <<PackSignedByte(msg_type)>> \o EncodeTag(tag)

\* msg_type = (256 - (header >> 24 & 0xff)) * -1;
\* tag = ((header << 8) & 0xFFFFFFFF) >> 8: the shift left and the mask drop
\* the top byte of the 32-bit word, the shift right puts the low 24 bits back.
ReadHeader(b) ==
  LET header == UnpackInt(b)
      msg_type == (256 - ((header \div 16777216) % 256)) * (-1)
      tag == header % 16777216
  IN <<msg_type, tag>>

HdInit ==
  /\ hd_type \in HeaderTypes
  /\ hd_tag \in HeaderTags
  /\ hd_bytes = <<>>
  /\ hd_read = <<>>

\* The header variables where no header is under study.
HdIdle == hd_type = 2 /\ hd_tag = 0

\* AsyncProcessRequest builds the header of the frame it queues.
BuildHeaderStep ==
  /\ hd_bytes = <<>>
  /\ \E data_len \in DataLens : hd_bytes' = BuildHeader(hd_tag, hd_type, data_len)
  /\ UNCHANGED <<hd_type, hd_tag, hd_read, tqvars, muxvars, servars, chvars, zkvars,
                 spvars>>

\* The receiver strips the 4 length bytes; ReadHeader gets the type byte and
\* the three tag bytes.
ReadHeaderStep ==
  /\ hd_bytes # <<>>
  /\ hd_read = <<>>
  /\ hd_read' = ReadHeader(SubSeq(hd_bytes, 5, 8))
  /\ UNCHANGED <<hd_type, hd_tag, hd_bytes, tqvars, muxvars, servars, chvars, zkvars,
                 spvars>>

HeaderNext ==
  \/ BuildHeaderStep
  \/ ReadHeaderStep

-----------------------------------------------------------------------------
(***************************************************************************)
(* scales/pool/singleton.py: the pool that shares one underlying sink.     *)
(***************************************************************************)
SinkIds == 1..MaxSinks

\* ChannelState, in the order of its values.
ChannelStateRank(s) ==
  CASE s = "Idle" -> 0
    [] s = "Open" -> 1
    [] s = "Busy" -> 2
    [] s = "Closed" -> 3

SpInit ==
  /\ sp_ref = 0
  /\ sp_next = 0
  /\ sp_state = [i \in SinkIds |-> "none"]
  /\ sp_made = 0
  /\ sp_got = 0
  /\ sp_opens = 0
  /\ sp_closes = 0
  /\ sp_last = "init"

\* _Get, lines 33-44, on a pool whose next_sink is nx (0: None) and whose
\* sinks are in the states st; opened: the new sink's Open() returns (it
\* raises otherwise).  got = 0: _Get raised.
Get(nx, st, made, opened) ==
  IF nx # 0 /\ ChannelStateRank(st[nx]) <= ChannelStateRank("Open")
    THEN [next |-> nx, state |-> st, made |-> made, got |-> nx]
    ELSE LET id == made + 1 IN
         [next |-> id,
          state |-> [st EXCEPT ![id] = IF opened THEN "Open" ELSE "Closed"],
          made |-> id,
          got |-> IF opened THEN id ELSE 0]

\* _Get creates a sink unless it has one that is Idle or Open.
CanGet == sp_made < MaxSinks \/ (sp_next # 0 /\ sp_state[sp_next] \in {"Idle", "Open"})

\* Open(force), lines 11-14.
PoolOpen(force, opened) ==
  /\ sp_opens + sp_closes < MaxPoolCalls
  /\ force => CanGet
  /\ sp_ref' = sp_ref + 1
  /\ sp_opens' = sp_opens + 1
  /\ sp_last' = "Open"
  /\ IF force
       THEN LET g == Get(sp_next, sp_state, sp_made, opened) IN
            /\ sp_next' = g.next
            /\ sp_state' = g.state
            /\ sp_made' = g.made
            /\ sp_got' = g.got
       ELSE UNCHANGED <<sp_next, sp_state, sp_made, sp_got>>
  /\ UNCHANGED <<sp_closes, tqvars, muxvars, servars, chvars, zkvars, hdvars>>

\* Close(), lines 16-21.
PoolClose ==
  /\ sp_opens + sp_closes < MaxPoolCalls
  /\ sp_ref' = sp_ref - 1
  /\ sp_closes' = sp_closes + 1
  /\ sp_last' = "Close"
  /\ IF sp_next # 0 /\ sp_ref - 1 <= 0
       THEN /\ sp_next' = 0
            /\ sp_state' = [sp_state EXCEPT ![sp_next] = "Closed"]
       ELSE UNCHANGED <<sp_next, sp_state>>
  /\ UNCHANGED <<sp_made, sp_got, sp_opens, tqvars, muxvars, servars, chvars, zkvars, hdvars>>

\* A request is processed: the pool fetches its sink with _Get.
PoolGet(opened) ==
  /\ CanGet
  /\ LET g == Get(sp_next, sp_state, sp_made, opened) IN
     /\ sp_next' = g.next
     /\ sp_state' = g.state
     /\ sp_made' = g.made
     /\ sp_got' = g.got
  /\ sp_last' = "Get"
  /\ UNCHANGED <<sp_ref, sp_opens, sp_closes, tqvars, muxvars, servars, chvars, zkvars, hdvars>>

\* The underlying sink changes state on its own: it takes up or finishes a
\* call, or it faults.
SinkChanges(i, s) ==
  /\ sp_state[i] \in {"Idle", "Open", "Busy"}
  /\ s \in {"Open", "Busy", "Closed"}
  /\ s # sp_state[i]
  /\ sp_state' = [sp_state EXCEPT ![i] = s]
  /\ sp_last' = "Sink"
  /\ UNCHANGED <<sp_ref, sp_next, sp_made, sp_got, sp_opens, sp_closes,
                 tqvars, muxvars, servars, chvars, zkvars, hdvars>>

PoolNext ==
  \/ \E force \in BOOLEAN, opened \in BOOLEAN : PoolOpen(force, opened)
  \/ PoolClose
  \/ \E opened \in BOOLEAN : PoolGet(opened)
  \/ \E i \in SinkIds, s \in {"Open", "Busy", "Closed"} : SinkChanges(i, s)

----------------------------------------------------------------------------
\* The state after construction.  Each specification below moves one of the
\* subsystems; the others stay as constructed.
Init ==
  /\ TqInit
  /\ MuxInit
  /\ SerInit
  /\ ChainInit
  /\ ZkInit
  /\ HdInit
  /\ SpInit

InitTimer ==
  /\ Init
  /\ tp_max = MaxTag
  /\ HdIdle

InitMuxSilent ==
  /\ Init
  /\ tq_resolution = 0
  /\ ~tq_lowres
  /\ HdIdle

InitHeader ==
  /\ Init
  /\ tq_resolution = 0
  /\ ~tq_lowres
  /\ tp_max = MaxTag

InitMux ==
  /\ InitMuxSilent
  /\ tp_max = MaxTag

SpecTimer == InitTimer /\ [][TqNext]_vars

SpecMux == InitMux /\ [][MuxNext]_vars

\* The transport while the server sends nothing: calls, their timeouts and
\* discards, the first ping, the send loop, and the failures of the socket.
MuxSilentNext ==
  \/ Open
  \/ \E a \in PingIds : PingTimeoutHelper(a)
  \/ PingTimeoutHelperStart
  \/ SendLoop
  \/ SendLoopError
  \/ RecvLoopError
  \/ \E r \in Reqs, kind \in Kinds : AsyncProcessRequest(r, kind)
  \/ \E r \in Reqs : TimerFires(r)
  \/ \E r \in Reqs : TimeoutHelper(r)
  \/ PingTick

SpecMuxSilent == InitMuxSilent /\ [][MuxSilentNext]_vars

\* The transport with no calls: opening, the pings and their timeouts, the
\* frames of the server, and the failures of the socket.
PingNext ==
  \/ Open
  \/ OpenFails
  \/ OpenResume
  \/ PingLoop
  \/ \E a \in PingIds : PingTimeoutHelper(a)
  \/ PingTimeoutHelperStart
  \/ SendLoop
  \/ SendLoopError
  \/ \E f \in RecvFrames : RecvLoop(f.type, f.tag)
  \/ RecvLoopError
  \/ \E f \in RecvFrames : ProcessReply(f.type, f.tag)
  \/ PingTick

SpecPing == InitMux /\ [][PingNext]_vars

\* The serial transport alone.
SpecSerial == InitMux /\ [][SerialNext]_vars

\* The timeout sink, its reply sink and the dispatcher, with the clock.
SpecChain == InitMux /\ [][ChainNext]_vars

\* The ServerSet and its ZooKeeper node.
SpecZk == InitMux /\ [][ZkNext]_vars

\* The frame header: every type and the sampled tags, built and read back.
SpecHeader == InitHeader /\ [][HeaderNext]_vars

\* The singleton pool and its underlying sinks.
SpecPool == InitMux /\ [][PoolNext]_vars

----------------------------------------------------------------------------
(***************************************************************************)
(* Properties of the timer queue, under SpecTimer.                         *)
(***************************************************************************)
\* The worker has popped entry s and spawned its action.
Started(s) == \E i \in 1..Len(tq_started) : tq_started[i] = s

\* C5: an entry on which cancel() has been called while its action had not
\* begun to run never has its action run.
C5_CancelledNeverFires ==
  [][\A s \in 1..tq_seq :
       (tq_entry[s].cancelled /\ s \notin tq_ran) => s \notin tq_ran']_vars

\* C6 as stated: the worker starts an entry's action only when the queue's
\* time source reads at least the entry's deadline.
C6_NoEarlyFiringByTimeSource ==
  [][\A s \in 1..tq_seq :
       (~Started(s) /\ Started(s)') => TimeSource >= tq_entry[s].deadline]_vars

\* C6 amended: the worker starts an entry's action only when the clock by
\* which its timed wait is measured (time.time) has reached the entry's
\* deadline as stored, which is never before the deadline asked for; a cached
\* time source may still read less.
C6_NoEarlyFiringByClock ==
  [][\A s \in 1..tq_seq :
       (~Started(s) /\ Started(s)') =>
          /\ tq_now >= tq_entry[s].deadline
          /\ tq_entry[s].deadline >= tq_entry[s].requested]_vars

\* An action was started after a timed wait while the cached time source
\* still read less than its deadline.
C6_Witness ==
  \E s \in 1..tq_seq :
    /\ Started(s)
    /\ tq_lowres
    /\ tq_cached < tq_entry[s].deadline
    /\ tq_now >= tq_entry[s].deadline

\* C7 as stated: no entry is started before the time asked for it, and when
\* an entry is started, every entry not cancelled that was asked for an
\* earlier time has been started before it.
C7_OrderByRequested ==
  [][\A b \in 1..tq_seq :
       (~Started(b) /\ Started(b)')
       => /\ tq_now >= tq_entry[b].requested
          /\ \A a \in 1..tq_seq :
               (/\ a # b
                /\ ~tq_entry[a].cancelled
                /\ tq_entry[a].requested < tq_entry[b].requested)
               => Started(a)]_vars

\* C7 amended: no entry is started before the time asked for it, and when an
\* entry is started, every entry not cancelled whose deadline as stored
\* (rounded up to the resolution) is earlier has been started before it; of
\* two entries stored with the same deadline, the one scheduled first is
\* started first.
C7_OrderByDeadline ==
  [][\A b \in 1..tq_seq :
       (~Started(b) /\ Started(b)')
       => /\ tq_now >= tq_entry[b].requested
          /\ \A a \in 1..tq_seq :
               (/\ a # b
                /\ ~tq_entry[a].cancelled
                /\ \/ tq_entry[a].deadline < tq_entry[b].deadline
                   \/ /\ tq_entry[a].deadline = tq_entry[b].deadline
                      /\ a < b)
               => Started(a)]_vars

\* Two entries were started in the order of their deadlines, which is not
\* the order in which they were scheduled.
C7_Witness ==
  /\ tq_started = <<2, 1>>
  /\ tq_entry[2].deadline < tq_entry[1].deadline
  /\ ~tq_entry[1].cancelled
  /\ ~tq_entry[2].cancelled

----------------------------------------------------------------------------
(***************************************************************************)
(* Properties of the multiplexed transport, under SpecMux.                 *)
(***************************************************************************)
\* The step is _ProcessReply of the frame (type, tag).
IsProcessReply(type, tag) ==
  /\ ready # <<>>
  /\ Head(ready) = [k |-> "reply", type |-> type, n |-> tag]
  /\ ready' = Tail(ready)

\* C1: a tag that TagPool.get can return is never a tag of the in-flight map.
C1_TagUniqueness ==
  \A g \in TagPoolGet : g.tag \notin DOMAIN tag_map

\* C2: when a reply frame with tag T (not 0, not the ping reply) is
\* processed, its message goes to the sink stack stored under T, which is
\* the stack of a call stamped with T, and to no other call.
C2_PerTagCorrelation ==
  [][\A f \in RecvFrames :
       (/\ IsProcessReply(f.type, f.tag)
        /\ f.tag # 0
        /\ ~(f.tag = 1 /\ f.type = "Rping"))
       => \A r \in Reqs :
            IF f.tag \in DOMAIN tag_map /\ tag_map[f.tag] = r
              THEN /\ req[r].tag = f.tag
                   /\ req'[r].disp = Append(req[r].disp, Unmarshal(f.type, f.tag))
              ELSE req'[r].disp = req[r].disp]_vars

\* With two calls in flight under different tags, the reply to one of them
\* has reached it and the other has received nothing.
C2_Witness ==
  \E r, o \in Reqs :
    /\ r # o
    /\ req[r].tag # 0
    /\ req[o].tag # 0
    /\ req[o].tag # req[r].tag
    /\ req[o].tag \in DOMAIN tag_map
    /\ req[o].disp = <<>>
    /\ req[r].disp = <<Unmarshal("Rdispatch", req[r].tag)>>

\* C3: the future of a call is completed at most once.
C3_SingleCompletion ==
  \A r \in Reqs : Len(req[r].fut) <= 1

C8_ShutdownCompletesWaiters ==
  [][(m_state # "STOPPED" /\ m_state' = "STOPPED")
       => \A r \in Reqs :
            IF r \in Range(tag_map)
              THEN /\ req'[r].disp = Append(req[r].disp, ShutdownMsg(sd'.reason))
                   /\ req'[r].fut # <<>>
              ELSE req'[r].disp = req[r].disp]_vars

\* The transport was shut down with two calls in flight, and the shutdown
\* message is all that either has received.
C8_Witness ==
  /\ m_state = "STOPPED"
  /\ \A r \in Reqs :
       /\ r \in Range(tag_map)
       /\ req[r].disp = <<ShutdownMsg(sd.reason)>>
       /\ req[r].fut = <<ShutdownMsg(sd.reason)>>

\* C9: shutdown_result is set at most once, and no call has received two
\* shutdown messages.
C9_ShutdownOnce ==
  /\ sd.signals <= 1
  /\ \A r \in Reqs :
       Cardinality({i \in DOMAIN req[r].disp :
                      req[r].disp[i].k = "Shutdown"}) <= 1

\* C10: a call submitted while the transport is not RUNNING allocates no tag,
\* adds nothing to the in-flight map or the send queue, and is completed with
\* a transport-faulted error.
C10_RejectedUnlessRunning ==
  [][\A r \in Reqs :
       (/\ m_state # "RUNNING"
        /\ req[r].st = "new"
        /\ req'[r].st # "new")
       => /\ tp_set' = tp_set
          /\ tp_next' = tp_next
          /\ tag_map' = tag_map
          /\ send_queue' = send_queue
          /\ Len(req'[r].fut) = 1
          /\ req'[r].fut[1].k = "TransportFaulted"]_vars

\* C11: the send queue changes only by a put at its tail or by the send
\* loop taking its head, which is the payload the loop writes next: payloads
\* are written in the order in which they were put, by the one send loop.
C11_SendOrder ==
  [][\/ send_queue' = send_queue
     \/ /\ Len(send_queue') = Len(send_queue) + 1
        /\ SubSeq(send_queue', 1, Len(send_queue)) = send_queue
     \/ /\ send_queue # <<>>
        /\ send_pc = "running"
        /\ send_queue' = Tail(send_queue)]_vars

\* The Tping and a call's Tdispatch, put before the discard of the call,
\* have been written, and the discard is the one payload still queued.
C11_Witness ==
  \E r \in Reqs :
    /\ req[r].tag # 0
    /\ pings_sent = 1
    /\ send_pc = "running"
    /\ send_queue = <<Frame("Tdiscarded", 0, req[r].tag)>>

\* The calls (not one-way) that have been submitted.
Calls == {r \in Reqs : req[r].kind = "call" /\ req[r].st # "new"}

\* TagPool.Varz.pool_exhausted: counted each time get() raises.
PoolExhausted == Cardinality({r \in Reqs : req[r].st = "raised"})

----------------------------------------------------------------------------
(***************************************************************************)
(* Properties of the serial transport, under SpecSerial.                   *)
(***************************************************************************)
\* The step is AsyncProcessRequest for call r.
IsSerialRequest(r) == s_req[r].pc = "new" /\ s_req'[r].pc # "new"

\* C13: an AsyncProcessRequest made while _processing is not None is answered
\* with ChannelConcurrencyError, touches the socket neither by a write nor
\* otherwise, and leaves _processing and every other call as they were; a
\* call accepted while nothing was in flight is never answered with that
\* error.
C13_ConcurrencyViolation ==
  [][\A r \in SReqs :
       IsSerialRequest(r) =>
         IF s_processing # 0
           THEN /\ s_req'[r].result = "concurrency"
                /\ s_req'[r].resp = 1
                /\ s_writes' = s_writes
                /\ s_sock' = s_sock
                /\ s_processing' = s_processing
                /\ \A o \in SReqs \ {r} : s_req'[o] = s_req[o]
           ELSE /\ s_req'[r].result = "none"
                /\ s_processing' = r]_vars

\* The second call was answered with ChannelConcurrencyError while the first
\* one was in flight, and the first one then completed with its reply.
C13_Witness ==
  /\ s_req[2].result = "concurrency"
  /\ s_req[1].result = "reply"
  /\ s_writes = 1

\* The step delivers the response of the `except Exception` branch to call r.
IsSerialFault(r) == s_req[r].result = "none" /\ s_req'[r].result = "error"

\* C14: an exchange that fails with an exception other than a timeout leaves
\* the sink Closed, completes the call with the error and, on a sink that
\* was not Closed, signals on_faulted, which has then been signalled once;
\* on_faulted is never signalled a second time.
C14_FaultSignalsOnce ==
  [][/\ \A r \in SReqs :
          IsSerialFault(r) =>
            /\ SerialState(SinkNow)' = "Closed"
            /\ s_req'[r].resp = 1
            /\ SerialState(SinkNow) # "Closed" => s_faults' = 1
     /\ s_faults' <= 1]_vars

\* C15: once the state of the serial transport is Closed it stays Closed.
C15_ClosedTerminal ==
  [][SerialState(SinkNow) = "Closed" => SerialState(SinkNow)' = "Closed"]_vars

----------------------------------------------------------------------------
(***************************************************************************)
(* Properties of the sink stack and the sinks above the transport.         *)
(***************************************************************************)
\* Number of frames pushed on the sink stack of call r:
\* ThrfitMuxMessageSerializerSink.AsyncProcessMessage pushes itself once the
\* message is marshalled.
Pushes(r) == IF req[r].st \in {"sent", "raised"} THEN 1 ELSE 0

\* Number of times ClientChannelSinkStack.AsyncProcessResponse popped the
\* stack of call r: once for each return message the serializer sink
\* unmarshalled and dispatched.
Pops(r) ==
  Cardinality({i \in DOMAIN req[r].disp : req[r].disp[i].k \in {"Reply", "DecodeError"}})

\* No frame is read or processed any more.
Quiet == m_state = "STOPPED" /\ ready = <<>> /\ recv_pc # "running"

\* C16: no stack is popped more often than it was pushed, and once a call
\* with a reply sink has ended and the transport is stopped with nothing
\* left to process, every frame pushed for it was popped exactly once.
C16_StackBalance ==
  \A r \in Reqs :
    /\ Pops(r) <= Pushes(r)
    /\ (req[r].kind = "call" /\ req[r].fut # <<>> /\ Quiet) => Pops(r) = Pushes(r)

\* C18: a call whose request path failed (Marshal raised, or the tag pool
\* was exhausted) has the failure delivered to its future as an error return
\* message: no exception left AsyncProcessMessage with nothing delivered.
C18_ErrorsBecomeReplies ==
  \A r \in Reqs :
    req[r].st \in {"marshal_failed", "raised"} =>
      /\ req[r].fut # <<>>
      /\ Head(req[r].fut).k \in {"MarshalError", "PoolExhausted"}

\* A marshalling failure did reach the caller as an error return message.
C18_Witness ==
  \E r \in Reqs : req[r].st = "marshal_failed" /\ req[r].fut = <<Msg("MarshalError")>>

\* C17: a call that reaches the timeout sink with a Deadline already in the
\* past is answered at once with a TimeoutError and is not forwarded to the
\* next sink.
C17_PastDeadlineShortCircuits ==
  [][\A r \in CReqs :
       (/\ c_req[r].st = "new"
        /\ c_req'[r].st # "new"
        /\ c_req'[r].deadline # 0
        /\ c_req'[r].deadline < c_now)
       => /\ c_req'[r].st # "forwarded"
          /\ Len(c_req'[r].fut) = 1
          /\ c_req'[r].fut[1].error = "TimeoutError"]_vars

\* C19: a future completed from a return message whose error is a
\* TimeoutError is completed with that TimeoutError, stack string or not.
C19_TimeoutVerbatim ==
  \A r \in CReqs :
    \A i \in DOMAIN c_req[r].fut :
      c_req[r].fut[i].error = "TimeoutError" => c_req[r].fut[i].set = "TimeoutError"

\* A timeout without a stack string did reach the future unwrapped.
C19_Witness ==
  \E r \in CReqs :
    c_req[r].fut = <<[error |-> "TimeoutError", stack |-> FALSE, set |-> "TimeoutError"]>>

----------------------------------------------------------------------------
(***************************************************************************)
(* Properties of the ServerSet, under SpecZk.                              *)
(***************************************************************************)
\* The members a subscriber holds: those joined and not left since.
Joined == {m \in Members : ss_joins[m] - ss_leaves[m] = 1}

\* The members ZooKeeper shows.
Visible == IF zk_exists THEN zk_children ELSE {}

\* Every watch that fired has been delivered and the worker has nothing to do.
Settled == ~dw_pend /\ cw_pend = 0 /\ ss_queue = <<>> /\ nw_pc = "get"

\* C20: joins and leaves of a member alternate, beginning with a join, and
\* once every change has been delivered and processed the members joined
\* and not left are exactly the visible ones: no join or leave was lost or
\* duplicated.
C20_MembershipExactlyOnce ==
  /\ \A m \in Members : ss_joins[m] - ss_leaves[m] \in {0, 1}
  /\ Settled => Joined = Visible

----------------------------------------------------------------------------
\* C21: the membership callbacks are serialized and ordered: no on_join or
\* on_leave call begins while another one is in progress, and the calls are
\* made in the order in which the child-set changes and the deletions of the
\* path were observed.
C21_Serialized == \A i \in 1..Len(ss_log) : ~ss_log[i].over

C21_InObservationOrder ==
  \A i \in 1..Len(ss_log) : \A j \in 1..Len(ss_log) :
    i < j => ss_log[i].obs <= ss_log[j].obs

C21_CallbacksSerializedInOrder == C21_Serialized /\ C21_InObservationOrder

\* The members that have joined and not left, by the callbacks made so far:
\* those whose latest callback is an on_join.
RECURSIVE JoinedAfter(_)
JoinedAfter(log) ==
  IF log = <<>> THEN {}
  ELSE LET c == log[Len(log)]
           before == JoinedAfter(SubSeq(log, 1, Len(log) - 1))
       IN IF c.k = "join" THEN before \cup {c.m} ELSE before \ {c.m}

\* C22: after every prefix of the callback sequence the cached membership
\* map holds exactly the members for which on_join has been called and
\* on_leave has not been called since.
C22_MembersAreJoinsMinusLeaves == ss_members = JoinedAfter(ss_log)

\* The same, looked at only while the worker is between work items.
C22_AtRest == nw_pc = "get" => ss_members = JoinedAfter(ss_log)

\* A step of the _notification_worker.
IsWorkerStep == nw_pc' # nw_pc \/ nw_work' # nw_work

\* C23: while an iteration over the ServerSet is in progress (the callback
\* blocker's count is above zero) no step of the notification worker calls
\* on_join or on_leave or changes the cached membership map, also when the
\* iteration began while the worker was suspended inside a work item.
C23_ReentrancyGuard ==
  [][(it_count > 0 /\ IsWorkerStep) => (ss_log' = ss_log /\ ss_members' = ss_members)]_vars

\* The callbacks made for member m, in order.
CallsFor(m) == SelectSeq(ss_log, LAMBDA c : c.m = m)

\* Child 1 was created, deleted and created again with new data, and these
\* are all the changes made in ZooKeeper.
Recreated ==
  /\ zk_exists
  /\ zk_changes = 3
  /\ 1 \in zk_children
  /\ zk_ver[1] = 2
  /\ \A m \in Members \ {1} : zk_ver[m] = 0

\* C24: when child 1 is created, deleted and created again with new data
\* before the notification worker has taken anything from its queue, then,
\* once everything is delivered and processed, the callbacks made for it
\* are one on_leave with the old record followed by one on_join with the
\* new record, neither begun while another callback was in progress.
C24_Coalescing ==
  (Recreated /\ nw_began = 3 /\ Settled) =>
    /\ Len(CallsFor(1)) = 2
    /\ CallsFor(1)[1].k = "leave" /\ CallsFor(1)[1].v = 1
    /\ CallsFor(1)[2].k = "join" /\ CallsFor(1)[2].v = 2
    /\ ~CallsFor(1)[1].over /\ ~CallsFor(1)[2].over

\* The same with the worker free to run between the three changes, and
\* asking only for one on_leave(old) and, after it, one on_join(new) among
\* the callbacks.
C24_Lenient ==
  (Recreated /\ Settled) =>
    \E i \in 1..Len(CallsFor(1)) : \E j \in 1..Len(CallsFor(1)) :
      /\ i < j
      /\ CallsFor(1)[i].k = "leave" /\ CallsFor(1)[i].v = 1
      /\ CallsFor(1)[j].k = "join" /\ CallsFor(1)[j].v = 2
      /\ \A h \in 1..Len(CallsFor(1)) :
           (h # i /\ h # j) => (CallsFor(1)[h].k = "join" /\ CallsFor(1)[h].v = 1 /\ h < i)

\* The two outcomes of the scenario of C24 that the worker produces.
C24_WitnessCoalesced ==
  Recreated /\ nw_began = 3 /\ Settled /\ Len(CallsFor(1)) = 1
  /\ CallsFor(1)[1].k = "join" /\ CallsFor(1)[1].v = 2

C24_WitnessSeparate ==
  Recreated /\ nw_began = 3 /\ Settled /\ Len(CallsFor(1)) = 3
  /\ CallsFor(1)[1].k = "join" /\ CallsFor(1)[1].v = 2
  /\ CallsFor(1)[2].k = "leave" /\ CallsFor(1)[2].v = 2
  /\ CallsFor(1)[3].k = "join" /\ CallsFor(1)[3].v = 2

\* C25: once _Shutdown has run the map of calls in flight is empty, and a
\* frame processed after it is handed to no call's sink stack.
C25_NothingInFlightAfterShutdown ==
  [][sd.signals > 0 =>
       /\ DOMAIN tag_map = {}
       /\ \A f \in RecvFrames : IsProcessReply(f.type, f.tag) => req' = req]_vars

\* A call that got the shutdown error and, after it, the reply of a frame.
C25_Witness ==
  \E r \in Reqs :
    /\ Len(req[r].fut) >= 2
    /\ \E i \in 1..Len(req[r].fut) : \E j \in 1..Len(req[r].fut) :
         i < j /\ req[r].fut[i] = ShutdownMsg(sd.reason)
               /\ req[r].fut[j] # ShutdownMsg(sd.reason)

\* The place of a state on the path Uninitialized -> Starting -> Running ->
\* Stopped.
StateRank(s) ==
  CASE s = "UNINITIALIZED" -> 0
    [] s = "STARTING" -> 1
    [] s = "RUNNING" -> 2
    [] s = "STOPPED" -> 3

\* C26: the state of the multiplexed transport only moves forward along
\* Uninitialized, Starting, Running, Stopped; once Stopped it stays Stopped.
C26_StateForward == [][StateRank(m_state') >= StateRank(m_state)]_vars

\* The transport is running although it was shut down.
C26_Witness == sd.signals > 0 /\ m_state = "RUNNING"

\* The Tpings enqueued that have not been answered by an Rping and whose
\* wait for the answer has not timed out (which shuts the transport down).
Outstanding == {a \in 1..pings_sent : a \notin ars_set /\ ptimer.dl[a] # -2}

\* C27: at most one ping is outstanding, counting the first ping of _Open
\* and the pings of the ping loop.
C27_OnePingOutstanding == Cardinality(Outstanding) <= 1

\* The ping loop's second ping is outstanding; the two before were answered.
C27_Witness == pings_sent = 3 /\ Outstanding = {3} /\ ars_set = {1, 2}

\* The step in which the helper of ping a returns from its wait.
HelperReturns(a) == a \in ph_waiting /\ a \notin ph_waiting'

\* A _PingTimeoutHelper is waiting on ping a, or is spawned and will.
HelperWatches(a) ==
  \/ a \in ph_waiting
  \/ ping_ar = a /\ \E i \in DOMAIN ready : ready[i].k = "pinghelper"

\* C28: every ping outstanding has a helper that waits for its answer for
\* the ping timeout.  When the wait ends with no Rping processed, the
\* transport is Stopped, shut down by the helper with reason 'Ping
\* Timeout' if it was still active; when the Rping was processed before,
\* the helper changes nothing.
C28_PingFailure ==
  [][/\ \A a \in Outstanding : HelperWatches(a)
     /\ \A a \in PingIds :
          HelperReturns(a) =>
            IF a \in ars_set
              THEN m_state' = m_state /\ sd' = sd /\ req' = req
              ELSE /\ ptimer.dl[a] = 0
                   /\ m_state' = "STOPPED"
                   /\ sd' = IF isActive
                              THEN [signals |-> sd.signals + 1, reason |-> "Ping Timeout"]
                              ELSE sd]_vars

\* The first ping was answered in time and its helper returned; the ping
\* loop's ping was not, and its helper shut the transport down.
C28_Witness ==
  /\ 1 \in ars_set /\ ptimer.dl[1] = -2
  /\ 2 \notin ars_set /\ ptimer.dl[2] = -2
  /\ m_state = "STOPPED"
  /\ sd = [signals |-> 1, reason |-> "Ping Timeout"]

\* C29: TagPool.get never returns tag 0 (one-way messages) or tag 1 (pings),
\* whatever calls were made and whatever frames were received.
C29_ReservedTagsNeverAllocated == \A g \in TagPoolGet : g.tag \notin {0, 1}

\* A call is in flight under the ping tag.
C29_Witness == \E r \in Reqs : req[r].tag = 1 /\ 1 \in DOMAIN tag_map /\ tag_map[1] = r

\* A step that changes a timer entry and schedules none: a cancel.
IsCancelStep == tq_seq' = tq_seq /\ tq_entry' # tq_entry

\* C30: cancelling marks the entry and nothing else: the heap holds the
\* same entries with the same top, the other entries are unchanged, and a
\* second cancel of the entry changes nothing more.  An entry leaves the
\* heap only from the top, taken by the worker, and a cancelled entry that
\* leaves it is not started.
C30_CancelIdempotentLazy ==
  [][/\ IsCancelStep =>
          \E s \in 1..tq_seq :
            /\ tq_entry' = CancelClosure(tq_entry, s)
            /\ CancelClosure(tq_entry', s) = tq_entry'
            /\ tq_entry'[s].deadline = tq_entry[s].deadline
            /\ \A o \in (1..tq_seq) \ {s} : tq_entry'[o] = tq_entry[o]
            /\ tq_queue' = tq_queue
            /\ tq_queue # {} => HeapTop(tq_entry', tq_queue') = HeapTop(tq_entry, tq_queue)
            /\ UNCHANGED <<tq_event, tw_pc, tw_peeked, tq_spawned, tq_started, tq_ran>>
     /\ \A s \in tq_queue \ tq_queue' :
          /\ s = HeapTop(tq_entry, tq_queue)
          /\ tw_pc' = "L64"
          /\ tq_entry[s].cancelled => tq_spawned' = tq_spawned /\ tq_started' = tq_started]_vars

\* A cancelled entry is still in the heap, below an entry that is not
\* cancelled, while the worker waits for that one.
C30_Witness ==
  /\ tw_pc = "wait_to"
  /\ \E s \in tq_queue :
       /\ tq_entry[s].cancelled
       /\ s # HeapTop(tq_entry, tq_queue)
       /\ ~tq_entry[HeapTop(tq_entry, tq_queue)].cancelled

----------------------------------------------------------------------------
\* The place of entry s in the order in which the worker started actions
\* (0: not started).
StartIndex(s) ==
  IF \E i \in DOMAIN tq_started : tq_started[i] = s
    THEN CHOOSE i \in DOMAIN tq_started : tq_started[i] = s
    ELSE 0

\* C31: of two entries stored with the same deadline and not cancelled, the
\* one scheduled later is never started while the one scheduled first is
\* not, and when both are started the one scheduled first is first.
C31_TiesInScheduleOrder ==
  \A a \in 1..tq_seq : \A b \in 1..tq_seq :
    (/\ a < b
     /\ tq_entry[a].deadline = tq_entry[b].deadline
     /\ ~tq_entry[a].cancelled
     /\ ~tq_entry[b].cancelled
     /\ StartIndex(b) # 0)
    => (StartIndex(a) # 0 /\ StartIndex(a) < StartIndex(b))

\* Two entries asked for different times and stored with the same deadline
\* have both been started and have run.
C31_Witness ==
  /\ tq_seq = 2
  /\ tq_entry[1].deadline = tq_entry[2].deadline
  /\ tq_entry[1].requested # tq_entry[2].requested
  /\ ~tq_entry[1].cancelled /\ ~tq_entry[2].cancelled
  /\ tq_started = <<1, 2>>
  /\ tq_ran = {1, 2}

\* The timer queue under gevent's scheduling: a runnable greenlet is run (the
\* worker's steps and the spawned actions), and the clock advances.
TqFairness ==
  /\ WF_vars(TimerWorkerTop)
  /\ WF_vars(TimerWorkerWakeEmpty)
  /\ WF_vars(TimerWorkerResume)
  /\ WF_vars(TimerWorkerPeek)
  /\ WF_vars(TimerWorkerWake)
  /\ WF_vars(RunAction)
  /\ WF_vars(Tick)

SpecTimerLive == InitTimer /\ [][TqNext]_vars /\ TqFairness

\* The worker sleeps until a wake time the modelled clock does not reach.
BeyondHorizon == tw_pc = "wait_to" /\ ~tq_event /\ tw_peeked.wake > MaxTime

Due(s) ==
  /\ s <= tq_seq
  /\ ~tq_entry[s].cancelled
  /\ tq_now >= tq_entry[s].deadline

TimerSettled(s) ==
  /\ s <= tq_seq
  /\ Started(s) \/ tq_entry[s].cancelled

C33_HeaderRoundTrip ==
  hd_read # <<>> => hd_read = <<hd_type, hd_tag>>

\* A BAD_Rerr header with the largest tag has been built and read back.
C33_Witness ==
  /\ hd_type = 127
  /\ hd_tag = 2^TagBits - 1
  /\ hd_bytes # <<>>
  /\ hd_read = <<-129, 2^TagBits - 1>>

\* Wherever the worker is, its next step can be taken as soon as what it waits
\* for has happened: nothing a spawned action does stands in its way.
WorkerCanStep ==
  /\ tw_pc = "L64" => ENABLED TimerWorkerTop
  /\ tw_pc = "sleep0" => ENABLED TimerWorkerResume
  /\ tw_pc = "L75" => ENABLED TimerWorkerPeek
  /\ (tw_pc = "wait_empty" /\ tq_event) => ENABLED TimerWorkerWakeEmpty
  /\ (tw_pc = "wait_to" /\ (tq_event \/ tq_now >= tw_peeked.wake))
       => ENABLED TimerWorkerWake

\* C34: the timer worker never dies: its loop never terminates or raises (it
\* never peeks an empty heap), and an action that raised or never returns does
\* not keep the worker from its next step, so later entries are still started.
C34_WorkerNeverDies ==
  /\ tw_pc # "dead"
  /\ tw_pc = "L75" => tq_queue # {}
  /\ WorkerCanStep

\* The action of entry 1 raised or hangs; entry 2, due later, was started
\* after entry 1 and its action ran.
C34_Witness ==
  /\ tq_seq = 2
  /\ tq_entry[1].deadline < tq_entry[2].deadline
  /\ tq_started = <<1, 2>>
  /\ tq_failed = {1}
  /\ tq_ran = {1, 2}
  /\ tw_pc = "wait_empty"

\* The transport under gevent's scheduling: every runnable greenlet is run and
\* timed waits end.  Nothing obliges the server to send a frame.
PingFairness ==
  /\ WF_vars(OpenResume)
  /\ WF_vars(PingLoop)
  /\ \A a \in PingIds : WF_vars(PingTimeoutHelper(a))
  /\ WF_vars(PingTimeoutHelperStart)
  /\ WF_vars(SendLoop)
  /\ \A f \in RecvFrames : WF_vars(ProcessReply(f.type, f.tag))
  /\ WF_vars(PingTick)

SpecPingLive == InitMux /\ [][PingNext]_vars /\ PingFairness

\* C35: Open of the multiplexed transport always terminates: a call to _Open
\* that waits for the reply to its first ping eventually returns or raises,
\* also when the ping is never answered or the transport is shut down
\* meanwhile.
C35_OpenTerminates ==
  (open_pc = "wait_ping") ~> (open_pc \in {"done", "raised"})

\* _Open waits on the ping's AsyncResult, the ping has timed out, the
\* transport is stopped, both loops have ended, and no step is left.
C35_Witness ==
  /\ open_pc = "wait_ping"
  /\ open_result = "pending"
  /\ m_state = "STOPPED"
  /\ ptimer.dl[1] = -2
  /\ 1 \notin ars_set
  /\ recv_pc = "done"
  /\ send_pc = "done"
  /\ ~ENABLED PingNext

\* Call r was accepted by the serial transport and its exchange has ended:
\* its task finished (done), died of an exception (dead) or was killed.
SerialEnded(r) ==
  /\ s_req[r].pc \in {"done", "dead", "killed"}
  /\ s_req[r].result # "concurrency"

\* C36: every request accepted by the serial transport receives exactly one
\* response message, and _processing is null again once its exchange has
\* ended, by reply, timeout (also with a failed reopen), transport error, or
\* Close during the exchange.
C36_OneResponseAndIdle ==
  \A r \in SReqs :
    /\ s_req[r].resp <= 1
    /\ SerialEnded(r) => (s_req[r].resp = 1 /\ s_processing # r)

\* The exchange of call 1 timed out, reopening the socket failed: the task is
\* gone, no response was delivered, and _processing still holds it.
C36_Witness ==
  /\ s_req[1].pc = "dead"
  /\ s_req[1].resp = 0
  /\ s_processing = 1
  /\ ~s_sock

\* The data watch delivers the deletion of the parent path to _data_changed.
IsDeletionSeen == dw_pend /\ ~dw_pend' /\ ~zk_exists

\* C37: when the deletion of the watched parent path is seen, on_leave is
\* called once for every cached member and the cache becomes empty; when the
\* path is created again with children, on_join is called for them, so that
\* once every change is delivered and processed the cached membership equals
\* the children ZooKeeper shows.
C37_DeleteAndRecreate ==
  [][/\ IsDeletionSeen =>
          /\ ss_members' = {}
          /\ \A m \in ss_members : ss_leaves'[m] = ss_leaves[m] + 1
     /\ Settled' => ss_members' = Visible']_vars

\* The path was deleted and created again with child 1; everything has been
\* delivered and processed, no children watch is left, and the cache is empty.
C37_Witness ==
  /\ zk_exists
  /\ zk_children = {1}
  /\ Settled
  /\ ss_watching
  /\ cw_n = 0
  /\ ss_members = {}
  /\ ss_joins[1] = 0

\* C38: a reply frame whose tag is not in the in-flight map (and which is not
\* the reply to a ping) is dropped: its processing delivers nothing to any
\* call and leaves the in-flight map and the tag pool's free set unchanged.
C38_UnknownTagDropped ==
  [][\A f \in RecvFrames :
       (/\ IsProcessReply(f.type, f.tag)
        /\ f.tag \notin DOMAIN tag_map
        /\ ~(f.tag = 1 /\ f.type = "Rping"))
       => /\ req' = req
          /\ tag_map' = tag_map
          /\ tp_set' = tp_set]_vars

\* No tag was ever handed out, and the free set of the pool holds one.
C38_Witness ==
  /\ tp_next = 1
  /\ tag_map = <<>>
  /\ tp_set # {}
  /\ \A r \in Reqs : req[r].fut = <<>>

\* A Close call closes the shared sink.
PoolClosesSink ==
  /\ sp_closes' = sp_closes + 1
  /\ sp_next # 0
  /\ sp_next' = 0
  /\ sp_state'[sp_next] = "Closed"

\* C39: over any sequence of Open and Close calls on the singleton pool, the
\* reference count never becomes negative; the shared sink is closed by the
\* pool exactly when the number of Close calls reaches the number of Open
\* calls; and _Get returns the sink the pool holds, and keeps it, while that
\* sink is Idle or Open.
C39_RefCounting ==
  [][/\ sp_ref' >= 0
     /\ PoolClosesSink => sp_closes' = sp_opens'
     /\ (sp_closes' = sp_closes + 1 /\ sp_closes' = sp_opens' /\ sp_next # 0)
          => PoolClosesSink
     /\ (sp_last' = "Get" /\ sp_next # 0 /\ sp_state[sp_next] \in {"Idle", "Open"})
          => (sp_got' = sp_next /\ sp_next' = sp_next /\ sp_state' = sp_state)]_vars

\* Close was called once more than Open: the count is negative, and the sink
\* that a later opener got has been closed by the pool.
C39_Witness ==
  /\ sp_ref < 0
  /\ sp_closes = sp_opens + 1
  /\ sp_next = 0
  /\ sp_made = 1
  /\ sp_state[1] = "Closed"
  /\ sp_last = "Close"

\* C40: peek/pop consistency: whenever the worker, its timed wait over, pops
\* the heap, the entry it pops is the entry it peeked before the wait; while
\* it waits with the event unset the peeked entry is the head of the heap,
\* whatever Schedule and cancel calls were made meanwhile.
C40_PopIsPeeked ==
  [][/\ (tw_pc = "wait_to" /\ tq_queue \ tq_queue' # {})
          => tq_queue \ tq_queue' = {tw_peeked.seq}
     /\ (tw_pc' = "wait_to" /\ ~tq_event')
          => tw_peeked'.seq = HeapTop(tq_entry', tq_queue')]_vars

\* The worker waited on entry 1 and popped it when the wait was over; entry 2,
\* due later, was scheduled and cancelled and is still in the heap.
C40_Witness ==
  /\ tq_seq = 2
  /\ tq_started = <<1>>
  /\ tq_queue = {2}
  /\ tq_entry[2].cancelled
  /\ tq_entry[1].deadline < tq_entry[2].deadline
  /\ tq_entry[1].deadline > 0
  /\ tw_pc = "L64"
  /\ ~tq_event

=============================================================================
